---- MODULE Spec2Model ----
(***************************************************************************)
(* A model of pixie's GRUB image builder: the module dependency resolver   *)
(* (internal/grub/mods.go), the ELF -> PE32+ planner, symbol resolver and  *)
(* relocation engine (internal/grub), the module packer and the PE writer  *)
(* (internal/efipe).                                                       *)
(***************************************************************************)
EXTENDS Integers, Sequences, FiniteSets, TLC

VARIABLES
    \* ---- moduleDependencies.Resolve (mods.go:67-105) ----
    deps,             \* the receiver d: a map name -> list of names
    modules,          \* the argument of the call in progress
    unresolved,       \* the work queue
    allDependencies,  \* the visit list
    rstate,           \* "loop" | "done" | "err"
    result,           \* the returned list (<<>> stands for nil)
    rerr,             \* the returned error
    pass,             \* 1: Resolve(L);  2: Resolve(Resolve(L))
    firstResult,      \* the list returned by pass 1
    \* ---- grub.NewImage, efipe.New, efipe.Image.WriteTo ----
    elfFile,          \* the parsed ELF: machine, sections, symbols
    imageMods,        \* the modules given to NewImage
    istate,           \* "start" | "failed" | "built" | "headers" |
                      \* "sections" | "done" | "err" | "panic"
    image,            \* the grub.Image NewImage returned, or NoImage
    ierr,             \* the error of the step that failed
    pe,               \* the efipe.Image New returned, or NoPE
    sink,             \* the bytes the sink has received
    wi,               \* the section Image.WriteTo writes next
    \* ---- newModuleSection, moduleSection.WriteTo ----
    msMods,           \* the modules given to newModuleSection
    msOffset,         \* the offset given to newModuleSection
    ms,               \* the moduleSection, or NoSection
    msState,          \* "start" | "new" | "loop" | "done"
    msIndex,          \* the module the loop of WriteTo is at
    msOut,            \* the bytes cw has received
    \* ---- NewPrefixModule, Module.open ----
    prefix,           \* the string given to NewPrefixModule
    prefixMod,        \* the Module it returned, or NoModule
    prefixRead,       \* the bytes read from the stream open() returned
    prefixState,      \* "start" | "new" | "eof"
    \* ---- layoutVirtualSections, relocateSymbols ----
    planFile,         \* the parsed ELF
    planHeaderSize,   \* headerSize
    planAlignment,    \* alignment
    planSections,     \* the virtual sections returned (<<>> before)
    planSymbols,      \* the symbols relocateSymbols returned (<<>>: nil)
    planErr,          \* the error relocateSymbols returned
    planState,        \* "start" | "planned" | "resolved" | "failed"
    \* ---- newRelocationSection, relocationSection.Open ----
    rsRelocs,         \* the relocations given to newRelocationSection
    rsOffset,         \* the offset given to newRelocationSection
    rs,               \* the relocationSection, or NoSection
    rsDirectory,      \* the BASERELOC data directory entry New fills in
    rsOut,            \* the bytes copied from the section's stream
    rsState,          \* "start" | "new" | "eof"
    \* ---- align.Address ----
    alAddr,           \* addr, as little-endian bytes of the type's width
    alAlignment,      \* alignment
    alOnce,           \* Address(addr, alignment)
    alTwice,          \* Address(Address(addr, alignment), alignment)
    alState,          \* "start" | "once" | "twice"
    \* ---- distro.Manager.Reconcile ----
    providers,        \* m.providers with m.arches: what Latest returns for
                      \* each distro and whether reconcileForArch succeeds
    parallelism,      \* the limit given to eg.SetLimit
    unranged,         \* the distros the outer loop has not come to
    downloaders,      \* the downloaders the inner loop has not come to
    workers,          \* the goroutines of eg.Go and where each one is
    collector,        \* the collecting goroutine: "recv" | "append" | "exit"
    distro,           \* the value the collector received last
    distros,          \* the slice the collector appends to
    distroChClosed,   \* close(distroCh) has been called
    egErr,            \* the first error a worker returned
    reconcileState,   \* "range" | "closed" | "returned"
    reconciled,       \* the slice Reconcile returned (<<>>: nil or empty)
    reconcileErr,     \* the error Reconcile returned
    \* ---- grub.DownloadGrub ----
    setup,            \* what downloadURL and MkdirAll do: "ok" | "url" | "mkdir"
    response,         \* what the HTTP request does: "ok" | "error" | "status"
    bodyLeft,         \* the chunks of the body io.Copy has yet to write
    readsLeft,        \* the reads the extractor makes before it returns
    extracted,        \* what the extractor then returns: "nil" | an error
    pipeWrite,        \* a Write on the pipe is waiting for its reader
    downloadState,    \* the download goroutine: "request" | "copy" |
                      \* "done" | "failed"
    extractorState,   \* the extractor goroutine: "reading" | "done" | "failed"
    grubState,        \* DownloadGrub: "start" | "wait" | "returned"
    grubErr           \* the error DownloadGrub returned

resolveVars == <<deps, modules, unresolved, allDependencies, rstate, result,
                 rerr, pass, firstResult>>

imageVars == <<elfFile, imageMods, istate, image, ierr, pe, sink, wi>>

modsVars == <<msMods, msOffset, ms, msState, msIndex, msOut>>

prefixVars == <<prefix, prefixMod, prefixRead, prefixState>>

planVars == <<planFile, planHeaderSize, planAlignment, planSections,
              planSymbols, planErr, planState>>

relocVars == <<rsRelocs, rsOffset, rs, rsDirectory, rsOut, rsState>>

alignVars == <<alAddr, alAlignment, alOnce, alTwice, alState>>

reconcileVars == <<providers, parallelism, unranged, downloaders, workers,
                   collector, distro, distros, distroChClosed, egErr,
                   reconcileState, reconciled, reconcileErr>>

downloadVars == <<setup, response, bodyLeft, readsLeft, extracted, pipeWrite,
                  downloadState, extractorState, grubState, grubErr>>

buildVars == <<resolveVars, imageVars, modsVars, prefixVars, planVars,
               relocVars, alignVars>>

vars == <<buildVars, reconcileVars, downloadVars>>

\* ------------------------------------------------------------------------
\* Generic helpers
\* ------------------------------------------------------------------------
Range(s) == {s[i] : i \in 1..Len(s)}

SeqsUpTo(S, n) == UNION {[1..k -> S] : k \in 0..n}

IsInjective(s) == \A i, j \in 1..Len(s) : s[i] = s[j] => i = j

Last(s) == s[Len(s)]

\* the element of a one-element set; The({e(x) : x \in {v}}) is e with x
\* naming the value of v, computed once
The(S) == CHOOSE x \in S : TRUE

RECURSIVE SumSeq(_)
SumSeq(s) == IF s = <<>> THEN 0 ELSE Head(s) + SumSeq(Tail(s))

RECURSIVE Zeros(_)
Zeros(n) == IF n <= 0 THEN <<>> ELSE <<0>> \o Zeros(n - 1)

\* ------------------------------------------------------------------------
\* Little-endian integers as byte sequences (struc.Pack / struc.Unpack with
\* binary.LittleEndian); arithmetic is two's complement, modulo 2^(8*width)
\* ------------------------------------------------------------------------
RECURSIVE PackNat(_, _)
PackNat(n, width) ==
    IF width = 0 THEN <<>> ELSE <<n % 256>> \o PackNat(n \div 256, width - 1)

Complement(bytes) == [i \in 1..Len(bytes) |-> 255 - bytes[i]]

\* struc.Pack of a signed or unsigned integer of the given width
PackLE(n, width) ==
    IF n >= 0 THEN PackNat(n, width) ELSE Complement(PackNat(-n - 1, width))

RECURSIVE AddCarry(_, _, _)
AddCarry(x, y, carry) ==
    IF x = <<>> THEN <<>>
    ELSE LET sum == Head(x) + Head(y) + carry
         IN  <<sum % 256>> \o AddCarry(Tail(x), Tail(y), sum \div 256)

\* x + y in wrap-around arithmetic of the operands' width
AddLE(x, y) == AddCarry(x, y, 0)

\* x - y in wrap-around arithmetic of the operands' width
SubLE(x, y) == AddCarry(x, Complement(y), 1)

\* ------------------------------------------------------------------------
\* Byte streams. What a writer has written is kept as the sequence of its
\* writes: <<"d", bytes>> literal bytes, <<"z", n>> n zero bytes
\* (iometa.WriteZeros), <<"h", n>> n bytes of packed headers.
\* ------------------------------------------------------------------------
RunLen(run) == IF run[1] = "d" THEN Len(run[2]) ELSE run[2]

RECURSIVE StreamLen(_)
StreamLen(stream) ==
    IF stream = <<>> THEN 0 ELSE RunLen(Head(stream)) + StreamLen(Tail(stream))

\* the byte at 0-based position pos (-1: a header byte, or past the end)
RECURSIVE ByteAt(_, _)
ByteAt(stream, pos) ==
    IF stream = <<>> THEN -1
    ELSE LET run == Head(stream)
         IN  IF pos < RunLen(run)
             THEN (IF run[1] = "d" THEN run[2][pos + 1]
                   ELSE IF run[1] = "z" THEN 0 ELSE -1)
             ELSE ByteAt(Tail(stream), pos - RunLen(run))

BytesAt(stream, pos, n) == [i \in 1..n |-> ByteAt(stream, pos + i - 1)]

ZeroRun(n) == IF n > 0 THEN << <<"z", n>> >> ELSE <<>>
DataRun(bytes) == IF bytes # <<>> THEN << <<"d", bytes>> >> ELSE <<>>

\* ------------------------------------------------------------------------
\* align.Address
\* ------------------------------------------------------------------------
Address(addr, alignment) ==
    IF alignment = 0 THEN addr
    ELSE ((addr + alignment - 1) \div alignment) * alignment

\* align.Address in the integer type of its operands: addr and alignment are
\* little-endian byte sequences of the type's width (4 for uint32, 8 for
\* uint64) and +, -, / and * are Go's, modulo 2^(8*width)

\* x >= y, unsigned
RECURSIVE GeLE(_, _)
GeLE(x, y) ==
    IF x = <<>> THEN TRUE
    ELSE IF x[Len(x)] # y[Len(y)] THEN x[Len(x)] > y[Len(y)]
    ELSE GeLE(SubSeq(x, 1, Len(x) - 1), SubSeq(y, 1, Len(y) - 1))

RECURSIVE MulCarry(_, _, _)
MulCarry(x, m, carry) ==
    IF x = <<>> THEN <<>>
    ELSE LET p == Head(x) * m + carry
         IN  <<p % 256>> \o MulCarry(Tail(x), m, p \div 256)

\* x * y in wrap-around arithmetic of the operands' width
RECURSIVE MulLE(_, _)
MulLE(x, y) ==
    IF x = <<>> THEN <<>>
    ELSE AddLE(MulCarry(x, Head(y), 0),
               <<0>> \o MulLE(SubSeq(x, 1, Len(x) - 1), Tail(y)))

\* the digit k of a quotient: k * d <= r < (k + 1) * d, where r < 256 * d
DivDigit(r, d) ==
    CHOOSE k \in 0..255 :
        LET kd == MulCarry(d, k, 0)
        IN  GeLE(r, kd) /\ ~GeLE(SubLE(r, kd), d)

\* <<x / d, x % d>>, unsigned, d # 0, by long division from the most
\* significant byte of x; the remainder has the width of d
RECURSIVE DivRemLE(_, _)
DivRemLE(x, d) ==
    IF x = <<>> THEN << <<>>, Zeros(Len(d)) >>
    ELSE The({ The({ The({ << <<k>> \o hi[1],
                              SubSeq(SubLE(r, MulCarry(d \o <<0>>, k, 0)),
                                     1, Len(d)) >>
                           : k \in {DivDigit(r, d \o <<0>>)} })
                     : r \in {<<Head(x)>> \o hi[2]} })
               : hi \in {DivRemLE(Tail(x), d)} })

\* Address that leaves the "+ alignment - 1" out and so rounds down
AddressLERoundDown(addr, alignment) ==
    IF alignment = Zeros(Len(alignment)) THEN addr
    ELSE MulLE(DivRemLE(addr, alignment)[1], alignment)

AddressLE(addr, alignment) ==
    IF alignment = Zeros(Len(alignment)) THEN addr
    ELSE The({ MulLE(DivRemLE(sum, alignment)[1], alignment)
               : sum \in {SubLE(AddLE(addr, alignment),
                                PackLE(1, Len(addr)))} })

\* ------------------------------------------------------------------------
\* Dependency resolver
\* ------------------------------------------------------------------------
MaxDeps == 2
MaxRequest == 2
MaxVisits == 10

ModNames == {"a", "b", "c"}

NoError == "nil"
errUnrecognizedModule == "UnrecognizedModule"

\* slices.Reverse
ReverseIdentity(s) == s
Reverse(s) == [i \in 1..Len(s) |-> s[Len(s) + 1 - i]]

\* the seenModules loop: keep the first occurrence of every name
UniqueKeepAll(s) == s
RECURSIVE Unique(_)
Unique(s) ==
    IF s = <<>> THEN <<>>
    ELSE LET last == s[Len(s)]
         IN  The({IF last \in Range(init) THEN init ELSE Append(init, last) :
                  init \in {Unique(SubSeq(s, 1, Len(s) - 1))}})

\* directDependencies, ok := d[module]: ok
HasKeyAlways(d, module) == TRUE
HasKey(d, module) == module \in DOMAIN d

\* directDependencies, ok := d[module]: the list (nil for a missing key)
Lookup(d, module) == IF module \in DOMAIN d THEN d[module] ELSE <<>>

\* unresolved = append(unresolved, directDependencies...)
EnqueueFirstOnly(queue, directDependencies) ==
    IF directDependencies = <<>> THEN queue
    ELSE Append(queue, Head(directDependencies))
Enqueue(queue, directDependencies) == queue \o directDependencies

\* the maps NewDependencyList can produce over the module names: a name is
\* a key or not, and a key maps to a list of names
DepLists == {s \in SeqsUpTo(ModNames, MaxDeps) : IsInjective(s)}

GeneralDeps == UNION {[K -> DepLists] : K \in SUBSET ModNames}

\* "a: b c\nb: d\nc: d\nd: \n"
DiamondDeps == [a |-> <<"b", "c">>, b |-> <<"d">>, c |-> <<"d">>, d |-> <<>>]

Requests(names) == SeqsUpTo(names, MaxRequest) \ {<<>>}

\* "a: b\nb: c\nc: a\n"
TriangleDeps == [a |-> <<"b">>, b |-> <<"c">>, c |-> <<"a">>]

\* the maps over two names, with and without a cycle, and the two above
TerminationDeps ==
    {d \in GeneralDeps : DOMAIN d \subseteq {"a", "b"}
                            /\ \A m \in DOMAIN d : Range(d[m]) \subseteq {"a", "b"}}
        \cup {DiamondDeps, TriangleDeps}

TerminationInit ==
    /\ deps \in TerminationDeps
    /\ modules \in Requests({"a", "b"})
    /\ unresolved = modules          \* slices.Clone(modules)
    /\ allDependencies = <<>>
    /\ rstate = "loop"
    /\ result = <<>>
    /\ rerr = NoError
    /\ pass = 1
    /\ firstResult = <<>>

ResolveInit ==
    /\ \/ /\ deps \in GeneralDeps
          /\ modules \in Requests(ModNames)
       \/ /\ deps = DiamondDeps
          /\ modules \in Requests(DOMAIN DiamondDeps)
    /\ unresolved = modules          \* slices.Clone(modules)
    /\ allDependencies = <<>>
    /\ rstate = "loop"
    /\ result = <<>>
    /\ rerr = NoError
    /\ pass = 1
    /\ firstResult = <<>>

\* one iteration of the loop whose lookup succeeds (mods.go:71-86)
ResolveStep ==
    /\ rstate = "loop"
    /\ unresolved # <<>>
    /\ Len(allDependencies) < MaxVisits
    /\ LET module == Head(unresolved)
       IN  /\ HasKey(deps, module)
           /\ allDependencies' = Append(allDependencies, module)
           /\ unresolved' = Enqueue(Tail(unresolved), Lookup(deps, module))
    /\ UNCHANGED <<deps, modules, rstate, result, rerr, pass, firstResult>>

\* one iteration of the loop whose lookup fails (mods.go:80-83)
ResolveFail ==
    /\ rstate = "loop"
    /\ unresolved # <<>>
    /\ Len(allDependencies) < MaxVisits
    /\ LET module == Head(unresolved)
       IN  /\ ~HasKey(deps, module)
           /\ allDependencies' = Append(allDependencies, module)
           /\ unresolved' = Tail(unresolved)
    /\ rstate' = "err"
    /\ result' = <<>>
    /\ rerr' = errUnrecognizedModule
    /\ UNCHANGED <<deps, modules, pass, firstResult>>

\* the queue is empty: reverse, deduplicate, return (mods.go:88-104)
ResolveFinish ==
    /\ rstate = "loop"
    /\ unresolved = <<>>
    /\ rstate' = "done"
    /\ result' = Unique(Reverse(allDependencies))
    /\ rerr' = NoError
    /\ UNCHANGED <<deps, modules, unresolved, allDependencies, pass, firstResult>>

\* the caller resolves again, on the list the first call returned
ResolveAgain ==
    /\ rstate = "done"
    /\ pass = 1
    /\ pass' = 2
    /\ firstResult' = result
    /\ modules' = result
    /\ unresolved' = result
    /\ allDependencies' = <<>>
    /\ rstate' = "loop"
    /\ result' = <<>>
    /\ UNCHANGED <<deps, rerr>>


\* ---- graph notions the claims about Resolve are stated with ----
\* names reachable from the request along dependency edges of known names
RECURSIVE ReachFrom(_, _)
ReachFrom(d, S) ==
    LET next == S \cup UNION {Range(d[m]) : m \in S \cap DOMAIN d}
    IN  IF next = S THEN S ELSE ReachFrom(d, next)

Closure(d, req) == ReachFrom(d, Range(req))

\* m depends (directly or transitively) on n
DependsOn(d, m, n) ==
    m \in DOMAIN d /\ n \in ReachFrom(d, Range(d[m]))

Acyclic(d, req) == \A m \in Closure(d, req) : ~DependsOn(d, m, m)

AllKnown(d, req) == Closure(d, req) \subseteq DOMAIN d

Position(s, x) == CHOOSE i \in 1..Len(s) : s[i] = x

\* every dependency before every module that depends on it
LeavesFirst(d, list) ==
    \A m, n \in Range(list) :
        DependsOn(d, m, n) => Position(list, n) < Position(list, m)

\* C1: for an acyclic dependency map and a request whose reachable names are
\* all keys, the list Resolve returns holds exactly the transitive closure of
\* the request, each module once, every dependency before its dependants.
C1_ResolveClosureOnceLeavesFirst ==
    (rstate = "done" /\ Acyclic(deps, modules) /\ AllKnown(deps, modules)) =>
        /\ rerr = NoError
        /\ Range(result) = Closure(deps, modules)
        /\ IsInjective(result)
        /\ LeavesFirst(deps, result)

C1_Witness ==
    /\ rstate = "done"
    /\ pass = 1
    /\ Len(result) >= 3
    /\ Len(allDependencies) > Len(result)
    /\ \E m \in Range(result) : Len(deps[m]) = 2

\* C2 (as stated): with the map {a: [b, c], b: [d], c: [d], d: []},
\* Resolve([a]) and Resolve([a, b]) both return [d, b, c, a].
C2_Original ==
    (deps = DiamondDeps /\ pass = 1 /\ rstate = "done"
        /\ modules \in {<<"a">>, <<"a", "b">>}) =>
        result = <<"d", "b", "c", "a">>

\* C2 (amended): with the map {a: [b, c], b: [d], c: [d], d: []},
\* Resolve([a]) and Resolve([a, b]) both return [d, c, b, a].
C2_DiamondList ==
    (deps = DiamondDeps /\ pass = 1 /\ rstate = "done"
        /\ modules \in {<<"a">>, <<"a", "b">>}) =>
        result = <<"d", "c", "b", "a">>

C2_Witness ==
    /\ deps = DiamondDeps
    /\ pass = 1
    /\ rstate = "done"
    /\ modules = <<"a", "b">>

\* C3 (as stated): Resolve(Resolve(L)) is the same list, in the same order,
\* as Resolve(L).
C3_Original ==
    (pass = 2 /\ rstate = "done") => result = firstResult

\* C3 (amended): Resolve(Resolve(L)) succeeds and holds the same modules as
\* Resolve(L), each once and every dependency before its dependants; the
\* order of the two lists may differ.
C3_ResolveTwiceSameModules ==
    /\ (pass = 2 /\ rstate = "done") =>
            /\ Range(result) = Range(firstResult)
            /\ Len(result) = Len(firstResult)
            /\ IsInjective(result)
            /\ LeavesFirst(deps, result)
    /\ pass = 2 => rstate # "err"

C3_Witness ==
    /\ pass = 2
    /\ rstate = "done"
    /\ Len(result) >= 3
    /\ result # firstResult

\* C4: Resolve fails with UnrecognizedModule and no list exactly when a name
\* it dequeues is not a key of the map: the loop never goes on past such a
\* name, a call that returns a list dequeued only keys, and a request whose
\* reachable names are all keys never fails.
C4_UnrecognizedModule ==
    /\ rstate = "err" =>
            /\ rerr = errUnrecognizedModule
            /\ result = <<>>
            /\ allDependencies # <<>>
            /\ allDependencies[Len(allDependencies)] \notin DOMAIN deps
    /\ rstate # "err" =>
            /\ rerr = NoError
            /\ Range(allDependencies) \subseteq DOMAIN deps
    /\ AllKnown(deps, modules) => rstate # "err"

C4_Witness ==
    /\ rstate = "err"
    /\ Len(allDependencies) >= 2
    /\ Range(modules) \subseteq DOMAIN deps

\* ------------------------------------------------------------------------
\* ELF input and section planner (internal/grub sections)
\* ------------------------------------------------------------------------
UEFIPageSize == 4096

SHN_UNDEF == 0
SHN_ABS == 65521

R_X86_64_NONE == 0
R_X86_64_64 == 1
R_X86_64_PC32 == 2
R_X86_64_PLT32 == 4

ImageRelBasedDir64 == 10

symbBssStart == "__bss_start"
symbEnd == "end"
symbStart == "_start"

errUnsupportedELFMachineType == "UnsupportedMachine"
errBSSSymbolButNoBSSSection == "BSSSymbolButNoBSS"
errUnrecognizedSymbol == "UnrecognizedUndefinedSymbol"
errUnknownSectionIndex == "UnknownSectionIndex"
errBadSymbolIndex == "BadSymbolIndex"
errUnsupportedRelocation == "UnsupportedRelocation"
errRelocationOutOfBounds == "RelocationOutOfBounds"
errInvalidRelocation == "InvalidRelocation"
errSectionRead == "SectionReadFailed"
errNoEntrypoint == "NoEntrypoint"

\* an elfSection: the ELF section header and data, its index in the section
\* table, and (after planning) its address in the image and its relocations
ElfSection(section, sectionIndex) ==
    [name |-> section.name, typ |-> section.typ, exec |-> section.exec,
     alloc |-> section.alloc, addralign |-> section.addralign,
     size |-> section.size, data |-> section.data,
     index |-> sectionIndex, addrInFile |-> 0, relocations |-> <<>>]

\* the loop of createVirtualSection: align, place, advance
RECURSIVE PlaceSectionsUnaligned(_, _)
PlaceSectionsUnaligned(addr, sourceSections) ==
    IF sourceSections = <<>> THEN [placed |-> <<>>, addr |-> addr]
    ELSE The({[placed |-> <<[Head(sourceSections) EXCEPT !.addrInFile = addr]>>
                              \o rest.placed,
               addr |-> rest.addr] :
              rest \in {PlaceSectionsUnaligned(addr + Head(sourceSections).size,
                                               Tail(sourceSections))}})
RECURSIVE PlaceSections(_, _)
PlaceSections(addr, sourceSections) ==
    IF sourceSections = <<>> THEN [placed |-> <<>>, addr |-> addr]
    ELSE LET section == Head(sourceSections)
             at == IF section.addralign > 0
                   THEN Address(addr, section.addralign) ELSE addr
         IN  The({[placed |-> <<[section EXCEPT !.addrInFile = at]>> \o rest.placed,
                   addr |-> rest.addr] :
                  rest \in {PlaceSections(at + section.size, Tail(sourceSections))}})

createVirtualSectionUnpadded(addr, sourceSections, alignment, kind) ==
    LET offset == Address(addr, alignment)
    IN  The({[virt |-> [offset |-> offset, size |-> placing.addr - offset,
                        kind |-> kind, realSections |-> placing.placed],
              addr |-> placing.addr] :
             placing \in {PlaceSections(offset, sourceSections)}})
createVirtualSectionUnalignedStart(addr, sourceSections, alignment, kind) ==
    The({[virt |-> [offset |-> addr,
                    size |-> Address(placing.addr, alignment) - addr,
                    kind |-> kind, realSections |-> placing.placed],
          addr |-> Address(placing.addr, alignment)] :
         placing \in {PlaceSections(addr, sourceSections)}})
createVirtualSection(addr, sourceSections, alignment, kind) ==
    LET offset == Address(addr, alignment)
    IN  The({[virt |-> [offset |-> offset,
                        size |-> Address(placing.addr, alignment) - offset,
                        kind |-> kind, realSections |-> placing.placed],
              addr |-> Address(placing.addr, alignment)] :
             placing \in {PlaceSections(offset, sourceSections)}})

IsText(section) == section.exec /\ section.alloc
IsData(section) == ~section.exec /\ section.alloc /\ section.typ # "NOBITS"
IsBSS(section) == ~section.exec /\ section.alloc /\ section.typ = "NOBITS"

layoutVirtualSectionsBssFirst(f, headerSize, alignment) ==
    LET isections == [i \in 1..Len(f.sections) |-> ElfSection(f.sections[i], i - 1)]
        textSections == SelectSeq(isections, IsText)
        dataSections == SelectSeq(isections, IsData)
        bssSections == SelectSeq(isections, IsBSS)
    IN  The({<<text.virt,
               createVirtualSection(text.addr, bssSections \o dataSections,
                                    alignment, "data").virt>> :
             text \in {createVirtualSection(headerSize, textSections,
                                            alignment, "text")}})
layoutVirtualSections(f, headerSize, alignment) ==
    LET isections == [i \in 1..Len(f.sections) |-> ElfSection(f.sections[i], i - 1)]
        textSections == SelectSeq(isections, IsText)
        dataSections == SelectSeq(isections, IsData)
        bssSections == SelectSeq(isections, IsBSS)
    IN  The({<<text.virt,
               createVirtualSection(text.addr, dataSections \o bssSections,
                                    alignment, "data").virt>> :
             text \in {createVirtualSection(headerSize, textSections,
                                            alignment, "text")}})

\* every kept real section, in layout order
KeptSections(virtualSections) ==
    virtualSections[1].realSections \o virtualSections[2].realSections

\* sectionsByIndex keyed by the position among the kept sections instead of
\* the index in the section table
SectionByIndexPosition(virtualSections, index) ==
    LET kept == KeptSections(virtualSections)
    IN  IF index \in 1..Len(kept) THEN <<kept[index]>> ELSE <<>>

\* sectionsByIndex
SectionByIndex(virtualSections, index) ==
    LET kept == KeptSections(virtualSections)
    IN  IF \E i \in 1..Len(kept) : kept[i].index = index
        THEN <<kept[CHOOSE i \in 1..Len(kept) : kept[i].index = index]>>
        ELSE <<>>

\* ------------------------------------------------------------------------
\* Symbol resolver
\* ------------------------------------------------------------------------
UndefinedSymbol == [name |-> "", section |-> SHN_UNDEF, value |-> 0]

\* bssStart: the address of the first NOBITS section in layout order, or 0
BssStartLast(virtualSections) ==
    LET nobits == SelectSeq(KeptSections(virtualSections),
                            LAMBDA section : section.typ = "NOBITS")
    IN  IF nobits = <<>> THEN 0 ELSE Last(nobits).addrInFile
BssStart(virtualSections) ==
    LET nobits == SelectSeq(KeptSections(virtualSections),
                            LAMBDA section : section.typ = "NOBITS")
    IN  IF nobits = <<>> THEN 0 ELSE Head(nobits).addrInFile

\* the body of the loop over the symbols: the symbol relocated, or an error
RelocateSymbolEndAtOffset(symb, virtualSections) ==
    LET bssStart == BssStart(virtualSections)
        end == Last(virtualSections).offset
        found == SectionByIndex(virtualSections, symb.section)
    IN  IF symb.section = SHN_UNDEF
        THEN IF symb.name = symbBssStart
             THEN IF bssStart = 0
                  THEN [err |-> errBSSSymbolButNoBSSSection, symb |-> symb]
                  ELSE [err |-> NoError, symb |-> [symb EXCEPT !.value = bssStart]]
             ELSE IF symb.name = symbEnd
             THEN [err |-> NoError, symb |-> [symb EXCEPT !.value = end]]
             ELSE [err |-> errUnrecognizedSymbol, symb |-> symb]
        ELSE IF symb.section = SHN_ABS
        THEN [err |-> NoError, symb |-> symb]
        ELSE IF found = <<>>
        THEN [err |-> errUnknownSectionIndex, symb |-> symb]
        ELSE [err |-> NoError,
              symb |-> [symb EXCEPT !.value = found[1].addrInFile + symb.value]]
RelocateSymbol(symb, virtualSections) ==
    LET bssStart == BssStart(virtualSections)
        lastVirt == Last(virtualSections)
        end == lastVirt.offset + lastVirt.size
        found == SectionByIndex(virtualSections, symb.section)
    IN  IF symb.section = SHN_UNDEF
        THEN IF symb.name = symbBssStart
             THEN IF bssStart = 0
                  THEN [err |-> errBSSSymbolButNoBSSSection, symb |-> symb]
                  ELSE [err |-> NoError, symb |-> [symb EXCEPT !.value = bssStart]]
             ELSE IF symb.name = symbEnd
             THEN [err |-> NoError, symb |-> [symb EXCEPT !.value = end]]
             ELSE [err |-> errUnrecognizedSymbol, symb |-> symb]
        ELSE IF symb.section = SHN_ABS
        THEN [err |-> NoError, symb |-> symb]
        ELSE IF found = <<>>
        THEN [err |-> errUnknownSectionIndex, symb |-> symb]
        ELSE [err |-> NoError,
              symb |-> [symb EXCEPT !.value = found[1].addrInFile + symb.value]]

\* relocateSymbols: the undefined symbol first, then every symbol relocated;
\* the first symbol that fails ends the call
RECURSIVE RelocateSymbolsFrom(_, _, _)
RelocateSymbolsFrom(symbs, virtualSections, relocatedSymbs) ==
    IF symbs = <<>> THEN [err |-> NoError, symbs |-> relocatedSymbs]
    ELSE LET one == RelocateSymbol(Head(symbs), virtualSections)
         IN  IF one.err # NoError THEN [err |-> one.err, symbs |-> <<>>]
             ELSE RelocateSymbolsFrom(Tail(symbs), virtualSections,
                                      Append(relocatedSymbs, one.symb))

\* relocateSymbols without the undefined symbol in front (as the older
\* internal/grub/sections.go has it)
relocateSymbolsNoUndefined(f, virtualSections) ==
    RelocateSymbolsFrom(f.symbols, virtualSections, <<>>)
relocateSymbols(f, virtualSections) ==
    RelocateSymbolsFrom(f.symbols, virtualSections, <<UndefinedSymbol>>)

\* ------------------------------------------------------------------------
\* Relocation engine (internal/grub/reloc.go)
\* ------------------------------------------------------------------------
\* relocationFuncsX86_64: the types the dispatch table knows
SupportedRelocations ==
    {R_X86_64_NONE, R_X86_64_64, R_X86_64_PC32, R_X86_64_PLT32}

\* addr += int64(rel.symbValue) + rel.addend, and a Dir64 PE relocation
relocateX86_64_64NoAddend(addr, rel) ==
    [addr |-> AddLE(addr, PackLE(rel.symbValue, 8)),
     peRel |-> <<[Kind |-> ImageRelBasedDir64, FileOffset |-> rel.fileOffset]>>]
relocateX86_64_64(addr, rel) ==
    [addr |-> AddLE(addr, AddLE(PackLE(rel.symbValue, 8), PackLE(rel.addend, 8))),
     peRel |-> <<[Kind |-> ImageRelBasedDir64, FileOffset |-> rel.fileOffset]>>]

\* addr + int32(addend) + int32(symbValue) - int32(fileOffset), no PE relocation
relocateX86_64_PC32NoPC(addr, rel) ==
    [addr |-> AddLE(AddLE(addr, PackLE(rel.addend, 4)), PackLE(rel.symbValue, 4)),
     peRel |-> <<>>]
relocateX86_64_PC32(addr, rel) ==
    [addr |-> SubLE(AddLE(AddLE(addr, PackLE(rel.addend, 4)),
                          PackLE(rel.symbValue, 4)),
                    PackLE(rel.fileOffset, 4)),
     peRel |-> <<>>]

\* relocateX86_64Adapter[N]: unpack width bytes of out, relocate, pack and
\* copy back; the relocator is the int64 one for N = int64 (width 8), the
\* int32 one for N = int32 (width 4)
relocateX86_64Adapter(width, out, rel) ==
    IF Len(out) < width
    THEN [err |-> errInvalidRelocation, out |-> out, peRel |-> <<>>]
    ELSE LET addr == SubSeq(out, 1, width)
             relocated == IF width = 8 THEN relocateX86_64_64(addr, rel)
                          ELSE relocateX86_64_PC32(addr, rel)
         IN  The({[err |-> NoError,
                   out |-> done.addr \o SubSeq(out, width + 1, Len(out)),
                   peRel |-> done.peRel] :
                  done \in {relocated}})

relocateNoop(out, rel) == [err |-> NoError, out |-> out, peRel |-> <<>>]

\* the function the dispatch table holds for a supported type, applied
RelocationFunc(typ, out, rel) ==
    IF typ = R_X86_64_64
    THEN relocateX86_64Adapter(8, out, rel)
    ELSE IF typ \in {R_X86_64_PC32, R_X86_64_PLT32}
    THEN relocateX86_64Adapter(4, out, rel)
    ELSE relocateNoop(out, rel)

\* processRelocations with the bound taken at the end of the operand
ProcessRelocationOperandBound(data, relocation) ==
    IF relocation.typ \notin SupportedRelocations
    THEN [err |-> errUnsupportedRelocation, data |-> data, peRel |-> <<>>]
    ELSE IF relocation.offset
                + (IF relocation.typ = R_X86_64_64 THEN 8
                   ELSE IF relocation.typ = R_X86_64_NONE THEN 0 ELSE 4)
              > Len(data)
    THEN [err |-> errRelocationOutOfBounds, data |-> data, peRel |-> <<>>]
    ELSE The({[err |-> done.err,
               data |-> SubSeq(data, 1, relocation.offset) \o done.out,
               peRel |-> done.peRel] :
              done \in {RelocationFunc(relocation.typ,
                            SubSeq(data, relocation.offset + 1, Len(data)),
                            relocation)}})

\* the body of the loop of processRelocations, for one relocation
ProcessRelocation(data, relocation) ==
    IF relocation.typ \notin SupportedRelocations
    THEN [err |-> errUnsupportedRelocation, data |-> data, peRel |-> <<>>]
    ELSE IF relocation.offset >= Len(data)
    THEN [err |-> errRelocationOutOfBounds, data |-> data, peRel |-> <<>>]
    ELSE The({[err |-> done.err,
               data |-> SubSeq(data, 1, relocation.offset) \o done.out,
               peRel |-> done.peRel] :
              done \in {RelocationFunc(relocation.typ,
                            SubSeq(data, relocation.offset + 1, Len(data)),
                            relocation)}})

RECURSIVE ProcessRelocationsFrom(_, _, _)
ProcessRelocationsFrom(relocations, data, unresolvedRelocs) ==
    IF relocations = <<>>
    THEN [err |-> NoError, data |-> data, relocs |-> unresolvedRelocs]
    ELSE The({IF one.err # NoError
              THEN [err |-> one.err, data |-> <<>>, relocs |-> <<>>]
              ELSE ProcessRelocationsFrom(Tail(relocations), one.data,
                                          unresolvedRelocs \o one.peRel) :
              one \in {ProcessRelocation(data, Head(relocations))}})

\* elfSection.processRelocations: read the section, apply every relocation
\* in order (reading a NOBITS section's data fails)
processRelocations(section) ==
    IF section.typ = "NOBITS" /\ section.size > 0
    THEN [err |-> errSectionRead, data |-> <<>>, relocs |-> <<>>]
    ELSE ProcessRelocationsFrom(section.relocations, section.data, <<>>)

\* the loop over the entries of one REL/RELA section of relocateAddresses
RECURSIVE AttachEntries(_, _, _, _, _)
AttachEntries(entries, hasAddend, targetSection, symbs, relocations) ==
    IF entries = <<>> THEN [err |-> NoError, relocations |-> relocations]
    ELSE LET entry == Head(entries)
         IN  IF entry.sym >= Len(symbs)
             THEN [err |-> errBadSymbolIndex, relocations |-> <<>>]
             ELSE IF entry.typ \notin SupportedRelocations
             THEN [err |-> errUnsupportedRelocation, relocations |-> <<>>]
             ELSE AttachEntries(Tail(entries), hasAddend, targetSection, symbs,
                    Append(relocations,
                      [typ |-> entry.typ,
                       addend |-> IF hasAddend THEN entry.addend ELSE 0,
                       offset |-> entry.offset,
                       fileOffset |-> targetSection.addrInFile + entry.offset,
                       symbValue |-> symbs[entry.sym + 1].value,
                       symbIndex |-> entry.sym]))

\* relocateAddresses reading and validating the entries of a relocation
\* section before it finds that the target section is excluded
RECURSIVE AttachSectionsValidateFirst(_, _, _, _)
AttachSectionsValidateFirst(sections, virtualSections, symbs, attached) ==
    IF sections = <<>> THEN [err |-> NoError, attached |-> attached]
    ELSE LET section == Head(sections)
             target == SectionByIndex(virtualSections, section.info)
         IN  IF section.typ \notin {"REL", "RELA"}
             THEN AttachSectionsValidateFirst(Tail(sections), virtualSections,
                                              symbs, attached)
             ELSE The({IF one.err # NoError
                       THEN [err |-> one.err, attached |-> attached]
                       ELSE AttachSectionsValidateFirst(Tail(sections),
                              virtualSections, symbs,
                              IF target = <<>> THEN attached
                              ELSE [attached EXCEPT ![target[1].index] =
                                        one.relocations]) :
                       one \in {AttachEntries(section.entries,
                                   section.typ = "RELA",
                                   IF target = <<>> THEN [addrInFile |-> 0]
                                   ELSE target[1],
                                   symbs,
                                   IF target = <<>> THEN <<>>
                                   ELSE attached[target[1].index])}})

\* the loop over the ELF sections of relocateAddresses; attached maps the
\* index of every kept section to the relocations attached so far
RECURSIVE AttachSections(_, _, _, _)
AttachSections(sections, virtualSections, symbs, attached) ==
    IF sections = <<>> THEN [err |-> NoError, attached |-> attached]
    ELSE LET section == Head(sections)
             target == SectionByIndex(virtualSections, section.info)
         IN  IF section.typ \notin {"REL", "RELA"} \/ target = <<>>
             THEN AttachSections(Tail(sections), virtualSections, symbs, attached)
             ELSE LET index == target[1].index
                  IN  The({IF one.err # NoError
                           THEN [err |-> one.err, attached |-> attached]
                           ELSE AttachSections(Tail(sections), virtualSections,
                                  symbs, [attached EXCEPT ![index] = one.relocations]) :
                           one \in {AttachEntries(section.entries,
                                       section.typ = "RELA", target[1], symbs,
                                       attached[index])}})

WithRelocations(virtualSections, attached) ==
    [v \in 1..Len(virtualSections) |->
        [virtualSections[v] EXCEPT !.realSections =
            [i \in 1..Len(virtualSections[v].realSections) |->
                [virtualSections[v].realSections[i] EXCEPT !.relocations =
                    attached[virtualSections[v].realSections[i].index]]]]]

\* the second loop of relocateAddresses: preprocess every kept section that
\* has relocations, collecting the unresolved (PE) relocations
RECURSIVE PreprocessSections(_, _)
PreprocessSections(sections, unresolvedRelocs) ==
    IF sections = <<>> THEN [err |-> NoError, relocs |-> unresolvedRelocs]
    ELSE IF Head(sections).relocations = <<>>
    THEN PreprocessSections(Tail(sections), unresolvedRelocs)
    ELSE The({IF one.err # NoError THEN [err |-> one.err, relocs |-> <<>>]
              ELSE PreprocessSections(Tail(sections),
                                      unresolvedRelocs \o one.relocs) :
              one \in {processRelocations(Head(sections))}})

\* relocateAddresses: the unresolved relocations, and the virtual sections
\* with the relocations attached to their real sections
relocateAddresses(f, virtualSections, symbs) ==
    IF f.machine # "EM_X86_64"
    THEN [err |-> errUnsupportedELFMachineType, relocs |-> <<>>,
          virtualSections |-> virtualSections]
    ELSE LET kept == KeptSections(virtualSections)
             none == [index \in {kept[i].index : i \in 1..Len(kept)} |-> <<>>]
         IN  The({IF attach.err # NoError
                  THEN [err |-> attach.err, relocs |-> <<>>,
                        virtualSections |-> virtualSections]
                  ELSE The({The({[err |-> pre.err, relocs |-> pre.relocs,
                                  virtualSections |-> withRelocs] :
                                 pre \in {PreprocessSections(
                                             KeptSections(withRelocs), <<>>)}}) :
                            withRelocs \in {WithRelocations(virtualSections,
                                                            attach.attached)}}) :
                  attach \in {AttachSections(f.sections, virtualSections,
                                             symbs, none)}})

\* ------------------------------------------------------------------------
\* Module packer (internal/grub/mods.go)
\* ------------------------------------------------------------------------
ObjTypeElf == 0
ObjTypePrefix == 3

moduleInfoMagic == 1735223661        \* 0x676d696d
moduleInfoStructSize == 24
moduleHeaderStructSize == 8

\* a Module: objType, payloadSize, and the bytes its stream delivers
Module(objType, payloadSize, payload) ==
    [objType |-> objType, payloadSize |-> payloadSize, payload |-> payload]

\* NewPrefixModule: the prefix, zero-terminated and padded to 8 bytes
NewPrefixModuleNoTerminator(str) ==
    LET prefixLength == Address(Len(str), 8)
    IN  Module(ObjTypePrefix, prefixLength,
               str \o Zeros(prefixLength - Len(str)))
NewPrefixModule(str) ==
    LET prefixLength == Address(Len(str) + 1, 8)
    IN  Module(ObjTypePrefix, prefixLength,
               str \o Zeros(prefixLength - Len(str)))

\* newModuleSection
TotalSize(mods) ==
    SumSeq([i \in 1..Len(mods) |-> mods[i].payloadSize + moduleHeaderStructSize])
        + moduleInfoStructSize

newModuleSection(mods, offset, alignment) ==
    [kind |-> "mods", mods |-> mods, offset |-> offset,
     realSize |-> TotalSize(mods),
     virtualSize |-> Address(offset + TotalSize(mods), alignment) - offset]

\* the module_info header of moduleSection.WriteTo, packed
PackModuleInfo(s) ==
    PackLE(moduleInfoMagic, 4) \o PackLE(0, 4)
        \o PackLE(moduleInfoStructSize, 8) \o PackLE(s.realSize, 8)

\* one iteration of the loop of moduleSection.WriteTo: header, then payload
PackModuleNoHeaderSize(mod) ==
    PackLE(mod.objType, 4) \o PackLE(mod.payloadSize, 4) \o mod.payload
PackModule(mod) ==
    PackLE(mod.objType, 4)
        \o PackLE(moduleHeaderStructSize + mod.payloadSize, 4) \o mod.payload

RECURSIVE PackModules(_)
PackModules(mods) ==
    IF mods = <<>> THEN <<>> ELSE PackModule(Head(mods)) \o PackModules(Tail(mods))

\* moduleSection.WriteTo: everything it writes
ModuleSectionBytes(s) == PackModuleInfo(s) \o PackModules(s.mods)

\* ------------------------------------------------------------------------
\* Image constructor (internal/grub/image.go)
\* ------------------------------------------------------------------------
dosHeaderSizeBytes == 64
dosStubSize == 64
optionalHeaderSize == 240
fileHeaderSize == 20
sectionHeaderSize == 40

\* dosImage.WriteTo: the 64-byte header, the stub, and zeros up to
\* PEHeaderStartAddr = align(len(dosStub), 128) when that lies further
DosImageSize ==
    LET written == dosHeaderSizeBytes + dosStubSize
        peHeaderStartAddr == Address(dosStubSize, 128)
    IN  IF peHeaderStartAddr > written THEN peHeaderStartAddr ELSE written

\* efipe.PEHeaderSize(n): the DOS image, the PE signature, the COFF and
\* optional headers and n section headers, page-aligned
PEHeaderSize(n) ==
    Address(DosImageSize + 4 + fileHeaderSize
                + optionalHeaderSize + n * sectionHeaderSize, UEFIPageSize)

isMachineSupported(m) == m = "EM_X86_64"

NoImage == [ok |-> FALSE]

HasStartAlways(symbs) == TRUE
HasStart(symbs) == \E i \in 1..Len(symbs) : symbs[i].name = symbStart

\* NewImage; the result of each step is computed once (The) and handed on
NewImage(f, mods, alignment) ==
    LET headerSize == PEHeaderSize(3)
        Finish(symbs, relocs) ==
            LET lastSection == Last(relocs.virtualSections)
                end == Address(lastSection.offset + lastSection.size, alignment)
            IN  IF ~HasStart(symbs)
                THEN [err |-> errNoEntrypoint, image |-> NoImage]
                ELSE The({[err |-> NoError,
                           image |->
                             [ok |-> TRUE,
                              headerSize |-> headerSize,
                              size |-> IF Len(mods) > 0
                                       THEN Address(end + moduleSection.virtualSize,
                                                    alignment)
                                       ELSE end,
                              symbols |-> symbs,
                              virtualSections |-> relocs.virtualSections,
                              relocations |-> relocs.relocs,
                              modules |-> IF Len(mods) > 0
                                          THEN <<moduleSection>> ELSE <<>>]] :
                          moduleSection \in {newModuleSection(mods, end, alignment)}})
        Relocate(virtualSections, symbs) ==
            The({IF relocs.err # NoError
                 THEN [err |-> relocs.err, image |-> NoImage]
                 ELSE Finish(symbs, relocs) :
                 relocs \in {relocateAddresses(f, virtualSections, symbs)}})
        Resolve(virtualSections) ==
            The({IF symbs.err # NoError
                 THEN [err |-> symbs.err, image |-> NoImage]
                 ELSE Relocate(virtualSections, symbs.symbs) :
                 symbs \in {relocateSymbols(f, virtualSections)}})
    IN  IF ~isMachineSupported(f.machine)
        THEN [err |-> errUnsupportedELFMachineType, image |-> NoImage]
        ELSE The({Resolve(virtualSections) :
                  virtualSections \in
                      {layoutVirtualSections(f, headerSize, alignment)}})

\* Image.Entrypoint: the value of the first symbol named _start (it panics
\* when there is none, which NewImage has excluded: -1 here)
Entrypoint(i) ==
    LET starts == SelectSeq(i.symbols, LAMBDA symb : symb.name = symbStart)
    IN  IF starts = <<>> THEN -1 ELSE Head(starts).value

\* Image.BaseOfCode
BaseOfCode(i) ==
    i.virtualSections[CHOOSE k \in 1..Len(i.virtualSections) :
                          i.virtualSections[k].kind = "text"].offset

\* Image.Sections: the virtual sections, then the module section if any
Sections(i) ==
    [k \in 1..Len(i.virtualSections) |->
        [kind |-> "virtual", virt |-> i.virtualSections[k]]] \o i.modules

\* ------------------------------------------------------------------------
\* Base-relocation section (internal/efipe/uefi.go)
\* ------------------------------------------------------------------------
\* reloc.FileOffset & ^(UEFIPageSize - 1)
PageRVA(fileOffset) == (fileOffset \div UEFIPageSize) * UEFIPageSize

\* the pages in ascending order (slices.SortFunc by pageRVA)
RECURSIVE SortedPagesDescending(_)
SortedPagesDescending(pages) ==
    IF pages = {} THEN <<>>
    ELSE LET most == CHOOSE p \in pages : \A q \in pages : p >= q
         IN  <<most>> \o SortedPagesDescending(pages \ {most})
RECURSIVE SortedPages(_)
SortedPages(pages) ==
    IF pages = {} THEN <<>>
    ELSE LET least == CHOOSE p \in pages : \A q \in pages : p <= q
         IN  <<least>> \o SortedPages(pages \ {least})

\* the relocation block of one page: its entries in the order of relocs
RelocationBlockNoKind(relocs, pageRVA) ==
    LET blockRelocs == SelectSeq(relocs,
                          LAMBDA reloc : PageRVA(reloc.FileOffset) = pageRVA)
        entries == [i \in 1..Len(blockRelocs) |->
                       (blockRelocs[i].FileOffset - pageRVA) % 4096]
    IN  [pageRVA |-> pageRVA,
         blockSize |-> Address(Len(entries) * 2 + 8, 4),
         entries |-> entries]
RelocationBlock(relocs, pageRVA) ==
    LET blockRelocs == SelectSeq(relocs,
                          LAMBDA reloc : PageRVA(reloc.FileOffset) = pageRVA)
        entries == [i \in 1..Len(blockRelocs) |->
                       ((blockRelocs[i].FileOffset - pageRVA) % 4096)
                           + blockRelocs[i].Kind * 4096]
    IN  [pageRVA |-> pageRVA,
         blockSize |-> Address(Len(entries) * 2 + 8, 4),
         entries |-> entries]

\* relocationBlock.WriteTo
RECURSIVE PackEntries(_)
PackEntries(entries) ==
    IF entries = <<>> THEN <<>>
    ELSE PackLE(Head(entries), 2) \o PackEntries(Tail(entries))

BlockBytes(b) ==
    LET packed == PackLE(b.pageRVA, 4) \o PackLE(b.blockSize, 4)
                      \o PackEntries(b.entries)
    IN  DataRun(packed) \o ZeroRun(b.blockSize - Len(packed))

RECURSIVE BlocksBytes(_)
BlocksBytes(blocks) ==
    IF blocks = <<>> THEN <<>>
    ELSE BlockBytes(Head(blocks)) \o BlocksBytes(Tail(blocks))

newRelocationSectionUnpadded(relocs, offset) ==
    LET pages == SortedPages({PageRVA(relocs[i].FileOffset) : i \in 1..Len(relocs)})
        blocks == [k \in 1..Len(pages) |-> RelocationBlock(relocs, pages[k])]
    IN  [kind |-> "reloc", blocks |-> blocks, offset |-> offset,
         data |-> BlocksBytes(blocks)]
newRelocationSection(relocs, offset) ==
    LET pages == SortedPages({PageRVA(relocs[i].FileOffset) : i \in 1..Len(relocs)})
        blocks == [k \in 1..Len(pages) |-> RelocationBlock(relocs, pages[k])]
        totalSize == SumSeq([k \in 1..Len(blocks) |-> blocks[k].blockSize])
        alignedTotalSize == Address(offset + totalSize, UEFIPageSize) - offset
        endPadding == alignedTotalSize - totalSize
    IN  The({[kind |-> "reloc", blocks |-> padded, offset |-> offset,
              data |-> BlocksBytes(padded)] :
             padded \in {[blocks EXCEPT ![Len(blocks)].blockSize = @ + endPadding]}})

\* ------------------------------------------------------------------------
\* PE32+ writer (internal/efipe)
\* ------------------------------------------------------------------------
SectionText == ".text"
SectionData == ".data"
SectionBSS == ".bss"
sectionMods == "mods"
sectionReloc == ".reloc"

errNoTextSection == "NoTextSection"
errSectionOffsetInvalid == "SectionOffsetInvalid"

\* virtualSectionType.Name
KindName(kind) ==
    IF kind = "text" THEN SectionText
    ELSE IF kind = "data" THEN SectionData ELSE SectionBSS

\* virtualSectionType.Characteristics
KindCharacteristics(kind) ==
    IF kind = "text" THEN {"CNT_CODE", "MEM_EXECUTE", "MEM_READ"}
    ELSE IF kind = "data" THEN {"CNT_INITIALIZED_DATA", "MEM_READ", "MEM_WRITE"}
    ELSE {"CNT_UNINITIALIZED_DATA", "MEM_READ", "MEM_WRITE"}

\* Section.Header of the three kinds of section
Header(section) ==
    IF section.kind = "virtual"
    THEN [Name |-> KindName(section.virt.kind),
          VirtualSize |-> section.virt.size,
          VirtualAddress |-> section.virt.offset,
          Size |-> section.virt.size,
          Offset |-> section.virt.offset,
          Characteristics |-> KindCharacteristics(section.virt.kind)]
    ELSE IF section.kind = "mods"
    THEN [Name |-> sectionMods,
          VirtualSize |-> section.virtualSize,
          VirtualAddress |-> section.offset,
          Size |-> section.virtualSize,
          Offset |-> section.offset,
          Characteristics |-> {"CNT_INITIALIZED_DATA", "MEM_READ", "MEM_WRITE"}]
    ELSE LET end == Address(section.offset + StreamLen(section.data), UEFIPageSize)
         IN  [Name |-> sectionReloc,
              VirtualSize |-> end - section.offset,
              VirtualAddress |-> section.offset,
              Size |-> end - section.offset,
              Offset |-> section.offset,
              Characteristics |->
                  {"CNT_INITIALIZED_DATA", "MEM_DISCARDABLE", "MEM_READ"}]

\* SectionList.GetByName
GetByName(sections, name) ==
    SelectSeq(sections, LAMBDA section : Header(section).Name = name)

NoDirectory == [VirtualAddress |-> 0, Size |-> 0]

NoPE == [ok |-> FALSE]

\* efipe.New
SizeOfImageNoReloc(program, relocSection) == program.size
SizeOfImage(program, relocSection) ==
    program.size + Header(relocSection).Size

New(program) ==
    LET sections == Sections(program)
        text == GetByName(sections, SectionText)
        bss == GetByName(sections, SectionBSS)
        initialized == SelectSeq(sections, LAMBDA section :
                          "CNT_INITIALIZED_DATA" \in Header(section).Characteristics)
        lastSection == Last(sections)
        relocStart == Address(Header(lastSection).Offset + Header(lastSection).Size,
                              UEFIPageSize)
        hasRelocs == Len(program.relocations) > 0
    IN  IF text = <<>> THEN [err |-> errNoTextSection, image |-> NoPE]
        ELSE The({[err |-> NoError,
              image |->
                [ok |-> TRUE,
                 header |-> [NumberOfSections |->
                                IF hasRelocs THEN Len(sections) + 1
                                ELSE Len(sections),
                             SizeOfOptionalHeader |-> optionalHeaderSize],
                 optHeader |->
                    [SizeOfCode |-> Header(text[1]).Size,
                     SizeOfInitializedData |->
                        SumSeq([k \in 1..Len(initialized) |->
                                   Header(initialized[k]).Size]),
                     SizeOfUninitializedData |->
                        IF bss = <<>> THEN 0 ELSE Header(bss[1]).Size,
                     AddressOfEntryPoint |-> Entrypoint(program),
                     BaseOfCode |-> BaseOfCode(program),
                     SectionAlignment |-> UEFIPageSize,
                     FileAlignment |-> UEFIPageSize,
                     SizeOfImage |-> IF hasRelocs
                                     THEN SizeOfImage(program, relocSection)
                                     ELSE program.size,
                     SizeOfHeaders |-> UEFIPageSize,
                     BaseReloc |-> IF hasRelocs
                                   THEN [VirtualAddress |->
                                            Header(relocSection).VirtualAddress,
                                         Size |-> Header(relocSection).Size]
                                   ELSE NoDirectory],
                 sections |-> IF hasRelocs THEN Append(sections, relocSection)
                              ELSE sections]] :
              relocSection \in {newRelocationSection(program.relocations,
                                                     relocStart)}})

\* ---- what each kind of section writes ----
\* the loop of virtualSection.WriteTo: pad up to each real section's place
\* (relative to the first real section), then its data
RECURSIVE WriteRealSections(_, _, _)
WriteRealSections(realSections, initialAddr, written) ==
    IF realSections = <<>> THEN [err |-> NoError, bytes |-> written]
    ELSE LET section == Head(realSections)
             at == section.addrInFile - initialAddr
             padded == IF StreamLen(written) < at
                       THEN written \o ZeroRun(at - StreamLen(written))
                       ELSE written
             Continue(bytes) ==
                 The({WriteRealSections(Tail(realSections), initialAddr, w) :
                      w \in {padded \o bytes}})
         IN  IF section.typ = "NOBITS"
             THEN Continue(ZeroRun(section.size))
             ELSE IF Len(section.relocations) > 0
             THEN The({IF relocated.err # NoError
                       THEN [err |-> relocated.err, bytes |-> padded]
                       ELSE Continue(DataRun(relocated.data)) :
                       relocated \in {processRelocations(section)}})
             ELSE Continue(DataRun(section.data))

\* virtualSection.WriteTo; indexing realSections[0] of an empty list panics
VirtualSectionBytes(virt) ==
    IF virt.realSections = <<>>
    THEN [err |-> "panic", bytes |-> <<>>]
    ELSE WriteRealSections(virt.realSections, virt.realSections[1].addrInFile, <<>>)

\* the bytes a section of any kind writes
SectionBytes(section) ==
    IF section.kind = "virtual" THEN VirtualSectionBytes(section.virt)
    ELSE IF section.kind = "mods"
    THEN [err |-> NoError, bytes |-> DataRun(ModuleSectionBytes(section))]
    ELSE [err |-> NoError, bytes |-> section.data]

\* the DOS image, the PE signature, the COFF and optional headers and the
\* section table that Image.WriteTo writes first
HeaderBytes(i) ==
    DosImageSize + 4 + fileHeaderSize + optionalHeaderSize
        + sectionHeaderSize * Len(i.sections)

\* ------------------------------------------------------------------------
\* The build: NewImage, then efipe.New, then Image.WriteTo to the sink
\* ------------------------------------------------------------------------
MaxSections == 2
MaxRelocs == 2
MaxImageMods == 1

NullSection ==
    [name |-> "", typ |-> "NULL", exec |-> FALSE, alloc |-> FALSE,
     addralign |-> 0, size |-> 0, data |-> <<>>, info |-> 0, entries |-> <<>>]

Progbits(name, exec, alloc, addralign, data) ==
    [name |-> name, typ |-> "PROGBITS", exec |-> exec, alloc |-> alloc,
     addralign |-> addralign, size |-> Len(data), data |-> data,
     info |-> 0, entries |-> <<>>]

\* 48 C7 C0 00 00 00 00 C3 and 8 zero bytes
Text16 == Progbits(".text", TRUE, TRUE, 16,
                   <<72, 199, 192, 0, 0, 0, 0, 195, 0, 0, 0, 0, 0, 0, 0, 0>>)
\* E8 00 00 00 00 90 90 90: call rel32
TextCall == Progbits(".text", TRUE, TRUE, 16, <<232, 0, 0, 0, 0, 144, 144, 144>>)
TextTarget == Progbits(".text.target", TRUE, TRUE, 8,
                       <<255, 255, 255, 255, 255, 255, 255, 255>>)
Data8 == Progbits(".data", FALSE, TRUE, 8, <<0, 0, 0, 0, 0, 0, 0, 0>>)
Comment == Progbits(".comment", FALSE, FALSE, 1, <<71, 67, 67, 0>>)
Bss == [name |-> ".bss", typ |-> "NOBITS", exec |-> FALSE, alloc |-> TRUE,
        addralign |-> 16, size |-> 32, data |-> <<>>, info |-> 0,
        entries |-> <<>>]

SectionCatalog == {Text16, TextTarget, Data8, Comment, Bss}

SymtabSection ==
    [name |-> ".symtab", typ |-> "SYMTAB", exec |-> FALSE, alloc |-> FALSE,
     addralign |-> 8, size |-> 72, data |-> <<>>, info |-> 0, entries |-> <<>>]

RelocSection(typ, info, entries) ==
    [name |-> ".rel", typ |-> typ, exec |-> FALSE, alloc |-> FALSE,
     addralign |-> 8, size |-> 24 * Len(entries), data |-> <<>>,
     info |-> info, entries |-> entries]

RelocTypes == {R_X86_64_64, R_X86_64_PC32, R_X86_64_PLT32}
RelocOffsets == {0, 1, 8}

\* REL/RELA entries naming symbol 2, the branch target
RelocEntries(offsets, addends) ==
    [sym : {2}, typ : RelocTypes, offset : offsets, addend : addends]

\* an ELF file: the null section, the content sections, one REL or RELA
\* section and the symbol table; two symbols, the first in section 1 (the
\* entry point, or not), the second a target in a section of its own
ElfFile(content, rel, first, second) ==
    [machine |-> "EM_X86_64",
     sections |-> <<NullSection>> \o content \o <<rel, SymtabSection>>,
     symbols |-> <<[name |-> first, section |-> 1, value |-> 0],
                   [name |-> "target", section |-> second, value |-> 0]>>]

Contents == {c \in SeqsUpTo(SectionCatalog, MaxSections) :
                c # <<>> /\ IsInjective(c)}

\* every layout, with at most one relocation entry
LayoutFiles ==
    UNION {{ElfFile(content, rel, first, second) :
                rel \in {RelocSection("RELA", info, entries) :
                            info \in 1..Len(content),
                            entries \in SeqsUpTo(RelocEntries({0}, {0, -4}), 1)}
                        \cup {RelocSection("REL", info, entries) :
                            info \in 1..Len(content),
                            entries \in SeqsUpTo(RelocEntries({0}, {0}), 1)},
                first \in {symbStart, "main"},
                second \in {1, Len(content)}} :
           content \in Contents}

\* two kept sections, with up to MaxRelocs relocation entries on one of
\* them (PLT32 entries, handled as PC32 ones, are left to LayoutFiles)
RelocFiles ==
    {ElfFile(content, RelocSection("RELA", info, entries), symbStart, second) :
        content \in {<<Text16, TextTarget>>, <<TextCall, TextTarget>>,
                     <<Text16, Data8>>},
        info \in 1..2,
        entries \in SeqsUpTo({e \in RelocEntries(RelocOffsets, {0, -4}) :
                                 e.typ # R_X86_64_PLT32}, MaxRelocs),
        second \in 1..2}

\* a text section and a section the planner excludes, with at most one RELA
\* entry on either: of a type with no operand, with one, or of a type the
\* dispatch table does not know; at the last operand of the section or at
\* its end; naming the last symbol or the one after the last
EdgeEntries ==
    [sym : {2, 3}, typ : {R_X86_64_NONE, R_X86_64_64, 3}, offset : {8, 16},
     addend : {0}]
EdgeFiles ==
    {ElfFile(<<Text16, Comment>>, RelocSection("RELA", info, entries),
             symbStart, 1) :
        info \in 1..2, entries \in SeqsUpTo(EdgeEntries, 1)}

\* a kernel built for another machine
ForeignFile ==
    [ElfFile(<<Text16>>, RelocSection("RELA", 1, <<>>), symbStart, 1)
        EXCEPT !.machine = "EM_AARCH64"]

ElfModule == Module(ObjTypeElf, 2, <<170, 187>>)
PrefixModule == NewPrefixModule(<<71, 82, 85, 66>>)

ImageInit ==
    /\ \/ /\ elfFile \in LayoutFiles \cup {ForeignFile}
          /\ imageMods \in SeqsUpTo({ElfModule, PrefixModule}, MaxImageMods)
          /\ imageMods # <<>> => elfFile.symbols[1].name = symbStart
       \/ /\ elfFile \in RelocFiles \cup EdgeFiles
          /\ imageMods = <<>>
    /\ istate = "start"
    /\ image = NoImage
    /\ ierr = NoError
    /\ pe = NoPE
    /\ sink = <<>>
    /\ wi = 0

\* grub.NewImage(kernel, modules, efipe.UEFIPageSize)
BuildImage ==
    /\ istate = "start"
    /\ \E built \in {NewImage(elfFile, imageMods, UEFIPageSize)} :
           /\ image' = built.image
           /\ ierr' = built.err
           /\ istate' = IF built.err = NoError THEN "built" ELSE "failed"
    /\ UNCHANGED <<elfFile, imageMods, pe, sink, wi>>

\* efipe.New(img)
BuildPE ==
    /\ istate = "built"
    /\ \E made \in {New(image)} :
           /\ pe' = made.image
           /\ ierr' = made.err
           /\ istate' = IF made.err = NoError THEN "headers" ELSE "failed"
    /\ UNCHANGED <<elfFile, imageMods, image, sink, wi>>

\* Image.WriteTo: the DOS image, PE signature, headers and section table
WriteHeaders ==
    /\ istate = "headers"
    /\ sink' = << <<"h", HeaderBytes(pe)>> >>
    /\ wi' = 1
    /\ istate' = "sections"
    /\ UNCHANGED <<elfFile, imageMods, image, ierr, pe>>

\* the loop of Image.WriteTo without the test of bytesUntilSection < 0
WriteSectionNoOffsetCheck ==
    /\ istate = "sections"
    /\ wi <= Len(pe.sections)
    /\ \E bytesUntilSection \in {Header(pe.sections[wi]).Offset - StreamLen(sink)},
          body \in {SectionBytes(pe.sections[wi])} :
           IF body.err = "panic"
           THEN /\ istate' = "panic"
                /\ sink' = sink \o ZeroRun(bytesUntilSection)
                /\ UNCHANGED <<ierr, wi>>
           ELSE IF body.err # NoError
           THEN /\ istate' = "err"
                /\ ierr' = body.err
                /\ sink' = sink \o ZeroRun(bytesUntilSection) \o body.bytes
                /\ UNCHANGED wi
           ELSE /\ sink' = sink \o ZeroRun(bytesUntilSection) \o body.bytes
                /\ wi' = wi + 1
                /\ UNCHANGED <<istate, ierr>>
    /\ UNCHANGED <<elfFile, imageMods, image, pe>>

\* Image.WriteTo: one iteration of the loop over the sections
WriteSection ==
    /\ istate = "sections"
    /\ wi <= Len(pe.sections)
    /\ \E bytesUntilSection \in {Header(pe.sections[wi]).Offset - StreamLen(sink)},
          body \in {SectionBytes(pe.sections[wi])} :
           IF bytesUntilSection < 0
           THEN /\ istate' = "err"
                /\ ierr' = errSectionOffsetInvalid
                /\ UNCHANGED <<sink, wi>>
           ELSE IF body.err = "panic"
           THEN /\ istate' = "panic"
                /\ sink' = sink \o ZeroRun(bytesUntilSection)
                /\ UNCHANGED <<ierr, wi>>
           ELSE IF body.err # NoError
           THEN /\ istate' = "err"
                /\ ierr' = body.err
                /\ sink' = sink \o ZeroRun(bytesUntilSection) \o body.bytes
                /\ UNCHANGED wi
           ELSE /\ sink' = sink \o ZeroRun(bytesUntilSection) \o body.bytes
                /\ wi' = wi + 1
                /\ UNCHANGED <<istate, ierr>>
    /\ UNCHANGED <<elfFile, imageMods, image, pe>>

\* Image.WriteTo: the zero padding after the last section, and the return
WriteFinalPadding ==
    /\ istate = "sections"
    /\ wi > Len(pe.sections)
    /\ LET lastSection == Last(pe.sections)
           bytesRemaining == Header(lastSection).Offset + Header(lastSection).Size
                                 - StreamLen(sink)
       IN  sink' = sink \o ZeroRun(bytesRemaining)
    /\ istate' = "done"
    /\ UNCHANGED <<elfFile, imageMods, image, ierr, pe, wi>>

\* ------------------------------------------------------------------------
\* The emission on its own: the build of a kernel whose first section asks
\* for more than a page of alignment, and efipe.New and Image.WriteTo on
\* programs other than a grub image, whose sections lie anywhere
\* ------------------------------------------------------------------------
MaxEmitSections == 2

\* 90 90 90 C3, aligned to two pages
TextWide == Progbits(".text", TRUE, TRUE, 8192, <<144, 144, 144, 195>>)

WideFiles ==
    {ElfFile(content, RelocSection("RELA", 1, <<>>), symbStart, 1) :
        content \in {<<TextWide>>, <<TextWide, Data8>>, <<TextWide, TextTarget>>,
                     <<Data8, TextWide>>}}

\* sections that start before the end of the headers, at the first page
\* and at the second, of 16 bytes or of a page
EmitSections ==
    {createVirtualSection(addr, <<ElfSection(Text16, 1)>>, alignment, kind).virt :
        addr \in {100, 4096, 8192}, alignment \in {16, 4096},
        kind \in {"text", "data"}}

\* an efipe.Program with these sections, the first a .text, and _start
OtherPrograms ==
    {[ok |-> TRUE, headerSize |-> 4096, size |-> 12288,
      symbols |-> <<UndefinedSymbol,
                    [name |-> symbStart, section |-> 1, value |-> 4096]>>,
      virtualSections |-> virtualSections,
      relocations |-> <<>>, modules |-> <<>>] :
        virtualSections \in
            {v \in SeqsUpTo(EmitSections, MaxEmitSections) :
                v # <<>> /\ v[1].kind = "text"}}

EmitInit ==
    /\ \/ /\ elfFile \in WideFiles
          /\ istate = "start"
          /\ image = NoImage
       \/ /\ elfFile = [machine |-> "EM_X86_64", sections |-> <<>>,
                        symbols |-> <<>>]
          /\ istate = "built"
          /\ image \in OtherPrograms
    /\ imageMods = <<>>
    /\ ierr = NoError
    /\ pe = NoPE
    /\ sink = <<>>
    /\ wi = 0

\* ------------------------------------------------------------------------
\* The module section on its own: newModuleSection, then WriteTo
\* ------------------------------------------------------------------------
MaxMods == 2

NoSection == [kind |-> "none"]

\* a module whose file is empty, and two whose stream does not deliver
\* payloadSize bytes (the file changed after NewModule read its size)
EmptyModule == Module(ObjTypeElf, 0, <<>>)
ShortModule == Module(ObjTypeElf, 4, <<1, 2, 3>>)
LongModule == Module(ObjTypeElf, 1, <<1, 2>>)

ModuleCatalog == {ElfModule, PrefixModule, EmptyModule, ShortModule, LongModule}

ModsInit ==
    /\ msMods \in SeqsUpTo(ModuleCatalog, MaxMods)
    /\ msOffset \in {UEFIPageSize, 2 * UEFIPageSize}
    /\ ms = NoSection
    /\ msState = "start"
    /\ msIndex = 0
    /\ msOut = <<>>

\* newModuleSection(mods, offset, alignment)
ModsNew ==
    /\ msState = "start"
    /\ ms' = newModuleSection(msMods, msOffset, UEFIPageSize)
    /\ msState' = "new"
    /\ UNCHANGED <<msMods, msOffset, msIndex, msOut>>

\* moduleSection.WriteTo: the module_info header
ModsWriteInfo ==
    /\ msState = "new"
    /\ msOut' = PackModuleInfo(ms)
    /\ msIndex' = 1
    /\ msState' = "loop"
    /\ UNCHANGED <<msMods, msOffset, ms>>

\* moduleSection.WriteTo: one iteration of the loop over s.mods
ModsWriteModule ==
    /\ msState = "loop"
    /\ msIndex <= Len(ms.mods)
    /\ msOut' = msOut \o PackModule(ms.mods[msIndex])
    /\ msIndex' = msIndex + 1
    /\ UNCHANGED <<msMods, msOffset, ms, msState>>

\* moduleSection.WriteTo: return cw.BytesWritten()
ModsReturn ==
    /\ msState = "loop"
    /\ msIndex > Len(ms.mods)
    /\ msState' = "done"
    /\ UNCHANGED <<msMods, msOffset, ms, msIndex, msOut>>

\* ------------------------------------------------------------------------
\* The prefix module on its own: NewPrefixModule, then open() and Read
\* ------------------------------------------------------------------------
MaxPrefixLen == 9

NoModule == [objType |-> -1]

\* the bytes of the strings: '/' and 'b'
PrefixBytes == {47, 98}

\* the sizes of the buffers given to Read
PrefixBufSizes == {3, 16}

PrefixInit ==
    /\ prefix \in SeqsUpTo(PrefixBytes, MaxPrefixLen)
    /\ prefixMod = NoModule
    /\ prefixRead = <<>>
    /\ prefixState = "start"

\* NewPrefixModule(prefix)
PrefixNew ==
    /\ prefixState = "start"
    /\ prefixMod' = NewPrefixModule(prefix)
    /\ prefixState' = "new"
    /\ UNCHANGED <<prefix, prefixRead>>

\* bytes.Reader.Read on the stream of open(): the next bytes of prefixBytes,
\* as many as the buffer holds
PrefixReadSome ==
    /\ prefixState = "new"
    /\ Len(prefixRead) < Len(prefixMod.payload)
    /\ \E size \in PrefixBufSizes :
           \E n \in {IF Len(prefixMod.payload) - Len(prefixRead) < size
                     THEN Len(prefixMod.payload) - Len(prefixRead) ELSE size} :
               prefixRead' = prefixRead \o SubSeq(prefixMod.payload,
                                 Len(prefixRead) + 1, Len(prefixRead) + n)
    /\ UNCHANGED <<prefix, prefixMod, prefixState>>

\* bytes.Reader.Read at the end of prefixBytes: io.EOF
PrefixReadEOF ==
    /\ prefixState = "new"
    /\ Len(prefixRead) >= Len(prefixMod.payload)
    /\ prefixState' = "eof"
    /\ UNCHANGED <<prefix, prefixMod, prefixRead>>

\* ------------------------------------------------------------------------
\* The planner and the symbol resolver on their own: layoutVirtualSections,
\* then relocateSymbols
\* ------------------------------------------------------------------------
MaxPlanSections == 2
MaxPlanSymbols == 2

\* a NOBITS section of one page with no alignment requirement, and a data
\* section whose alignment exceeds the page
BssByte == [name |-> ".bss.b", typ |-> "NOBITS", exec |-> FALSE, alloc |-> TRUE,
            addralign |-> 0, size |-> 4096, data |-> <<>>, info |-> 0,
            entries |-> <<>>]
DataWide == Progbits(".rodata", FALSE, TRUE, 8192, <<1, 2, 3>>)

PlanCatalog == {Text16, TextTarget, Data8, Comment, Bss, BssByte, DataWide}

\* the symbols of the table: the two synthetic ones and another undefined
\* one, two defined in section 1 (one of them at the end of a section of one
\* page), one absolute
PlanSymbolCatalog ==
    {[name |-> symbBssStart, section |-> SHN_UNDEF, value |-> 0],
     [name |-> symbEnd, section |-> SHN_UNDEF, value |-> 0],
     [name |-> "printf", section |-> SHN_UNDEF, value |-> 0],
     [name |-> symbStart, section |-> 1, value |-> 4],
     [name |-> "_ebss", section |-> 1, value |-> 4096],
     [name |-> "abs", section |-> SHN_ABS, value |-> 7]}

\* headerSize and alignment: those of NewImage, and others
PlanParams == {<<4096, 4096>>, <<4097, 24>>}

PlanFiles ==
    {[machine |-> "EM_X86_64",
      sections |-> <<NullSection>> \o content \o <<SymtabSection>>,
      symbols |-> symbols] :
        content \in {c \in SeqsUpTo(PlanCatalog, MaxPlanSections) : IsInjective(c)},
        symbols \in {t \in SeqsUpTo(PlanSymbolCatalog, MaxPlanSymbols) :
                        IsInjective(t)}}

PlanInit ==
    /\ planFile \in PlanFiles
    /\ \E params \in PlanParams :
           /\ planHeaderSize = params[1]
           /\ planAlignment = params[2]
    /\ planSections = <<>>
    /\ planSymbols = <<>>
    /\ planErr = NoError
    /\ planState = "start"

\* layoutVirtualSections(f, headerSize, alignment)
PlanLayout ==
    /\ planState = "start"
    /\ planSections' = layoutVirtualSections(planFile, planHeaderSize, planAlignment)
    /\ planState' = "planned"
    /\ UNCHANGED <<planFile, planHeaderSize, planAlignment, planSymbols, planErr>>

\* relocateSymbols(f, virtualSections)
PlanRelocateSymbols ==
    /\ planState = "planned"
    /\ \E symbs \in {relocateSymbols(planFile, planSections)} :
           /\ planSymbols' = symbs.symbs
           /\ planErr' = symbs.err
           /\ planState' = IF symbs.err = NoError THEN "resolved" ELSE "failed"
    /\ UNCHANGED <<planFile, planHeaderSize, planAlignment, planSections>>

\* ------------------------------------------------------------------------
\* The base-relocation section on its own: the part of efipe.New that makes
\* it and fills in the data directory, then the copy of its stream
\* ------------------------------------------------------------------------
MaxRelocations == 3

\* IMAGE_REL_BASED_HIGHLOW
ImageRelBasedHighLow == 3

\* the file offsets of the relocations: two pages, the first and the last
\* byte of a page among them
RelocationOffsets == {4096, 4104, 8191, 16376}

Relocations ==
    [Kind : {ImageRelBasedHighLow, ImageRelBasedDir64}, FileOffset : RelocationOffsets]

\* where the section starts: page-aligned as New computes it, or not
RelocationStarts == {20480, 20488}

RelocInit ==
    /\ rsRelocs \in SeqsUpTo(Relocations, MaxRelocations) \ {<<>>}
    /\ rsOffset \in RelocationStarts
    /\ rs = NoSection
    /\ rsDirectory = NoDirectory
    /\ rsOut = <<>>
    /\ rsState = "start"

\* New: relocSection := newRelocationSection(program.Relocations(),
\* relocStart), and the BASERELOC data directory entry from its header
RelocNew ==
    /\ rsState = "start"
    /\ \E relocSection \in {newRelocationSection(rsRelocs, rsOffset)} :
           /\ rs' = relocSection
           /\ rsDirectory' =
                  [VirtualAddress |-> Header(relocSection).VirtualAddress,
                   Size |-> Header(relocSection).Size]
    /\ rsState' = "new"
    /\ UNCHANGED <<rsRelocs, rsOffset, rsOut>>

\* Image.WriteTo: io.Copy(cw, section.Open())
RelocCopy ==
    /\ rsState = "new"
    /\ rsOut' = rs.data
    /\ rsState' = "eof"
    /\ UNCHANGED <<rsRelocs, rsOffset, rs, rsDirectory>>

\* ------------------------------------------------------------------------
\* align.Address called on uint32 and uint64 operands, and called again on
\* its own result
\* ------------------------------------------------------------------------
\* the widths, in bytes, of uint32 and uint64
AlignWidths == {4, 8}

\* the addresses and alignments tried; a negative n stands for 2^(8*width) + n
AlignAddrs == {0, 1, 4097, -1, -3, -4096, -4097}
AlignAlignments == {0, 1, 2, 3, 8, 4096, -1}

\* 2^(8*width - 1), the largest power of two of the type
TopBit(width) == Zeros(width - 1) \o <<128>>

AlignInit ==
    /\ \E width \in AlignWidths :
          /\ alAddr \in {PackLE(n, width) : n \in AlignAddrs}
          /\ alAlignment \in {PackLE(n, width) : n \in AlignAlignments}
                                 \cup {TopBit(width)}
    /\ alOnce = <<>>
    /\ alTwice = <<>>
    /\ alState = "start"

AlignOnce ==
    /\ alState = "start"
    /\ alOnce' = AddressLE(alAddr, alAlignment)
    /\ alState' = "once"
    /\ UNCHANGED <<alAddr, alAlignment, alTwice>>

AlignTwice ==
    /\ alState = "once"
    /\ alTwice' = AddressLE(alOnce, alAlignment)
    /\ alState' = "twice"
    /\ UNCHANGED <<alAddr, alAlignment, alOnce>>

\* ------------------------------------------------------------------------
\* distro.Manager.Reconcile: the caller, the goroutines of the errgroup and
\* the goroutine that collects what they send on the unbuffered distroCh
\* ------------------------------------------------------------------------
MaxWorkers == 3

DistroNames == {"alpine", "debian"}
Arches == {"amd64", "arm64"}

errLatest == "failed to get latest version"
errReconcileDistro == "failed to reconcile distro"
errReconcileFailed == "reconcile failed"

\* what a provider does: Latest fails, or returns a downloader for some
\* architectures, and reconcileForArch fails for some of these
ProviderOutcomes ==
    {o \in [latest : BOOLEAN, arches : SUBSET Arches, failing : SUBSET Arches] :
        /\ o.failing \subseteq o.arches
        /\ ~o.latest => o.arches = {}}

\* the (distro, arch) downloaders of a manager
Downloaders(p) ==
    {d \in DistroNames \X Arches : d[1] \in DOMAIN p /\ d[2] \in p[d[1]].arches}

ProviderMaps ==
    {p \in UNION {[K -> ProviderOutcomes] : K \in SUBSET DistroNames} :
        Cardinality(Downloaders(p)) <= MaxWorkers}

\* the goroutines of the group that have not returned
Active == {d \in DOMAIN workers : workers[d] \in {"reconciling", "sending"}}

\* a slice header read while append stores it: the length is the new one
\* and the new element is not there
Unwritten == <<"", "">>

\* what the caller's read of distros gives: the slice, or, when the
\* collector is between its receive and the end of its append, what this
\* unsynchronised read can see of the append
ReadDistros ==
    IF collector = "append"
    THEN {distros, Append(distros, distro), Append(distros, Unwritten)}
    ELSE {distros}

ReconcileInit ==
    /\ providers \in ProviderMaps
    /\ parallelism \in {-1, 0, 1, 2}
    /\ unranged = DOMAIN providers
    /\ downloaders = {}
    /\ workers = [d \in DistroNames \X Arches |-> "none"]
    /\ collector = "recv"
    /\ distro = Unwritten
    /\ distros = <<>>
    /\ distroChClosed = FALSE
    /\ egErr = NoError
    /\ reconcileState = "range"
    /\ reconciled = <<>>
    /\ reconcileErr = NoError

\* the outer loop comes to a distro and calls provider.Latest
ReconcileLatest ==
    /\ reconcileState = "range"
    /\ downloaders = {}
    /\ \E name \in unranged :
          IF providers[name].latest
          THEN /\ downloaders' = {d \in Downloaders(providers) : d[1] = name}
               /\ unranged' = unranged \ {name}
               /\ UNCHANGED <<reconcileState, reconciled, reconcileErr>>
          ELSE /\ reconcileState' = "returned"
               /\ reconciled' = <<>>
               /\ reconcileErr' = errLatest
               /\ UNCHANGED <<downloaders, unranged>>
    /\ UNCHANGED <<providers, parallelism, workers, collector, distro, distros,
                   distroChClosed, egErr>>

\* eg.Go: waits for a free place when a limit is set, then starts the goroutine
ReconcileGo ==
    /\ reconcileState = "range"
    /\ parallelism < 0 \/ Cardinality(Active) < parallelism
    /\ \E d \in downloaders :
          /\ downloaders' = downloaders \ {d}
          /\ workers' = [workers EXCEPT ![d] = "reconciling"]
    /\ UNCHANGED <<providers, parallelism, unranged, collector, distro, distros,
                   distroChClosed, egErr, reconcileState, reconciled,
                   reconcileErr>>

\* a goroutine of the group: reconcileForArch, and the return of its error
WorkerReconcile ==
    /\ \E d \in DOMAIN workers :
          /\ workers[d] = "reconciling"
          /\ IF d[2] \in providers[d[1]].failing
             THEN /\ workers' = [workers EXCEPT ![d] = "returned"]
                  /\ egErr' = IF egErr = NoError THEN errReconcileDistro ELSE egErr
             ELSE /\ workers' = [workers EXCEPT ![d] = "sending"]
                  /\ UNCHANGED egErr
    /\ UNCHANGED <<providers, parallelism, unranged, downloaders, collector,
                   distro, distros, distroChClosed, reconcileState, reconciled,
                   reconcileErr>>

\* distroCh <- distro meets the receive of the collector's range loop; the
\* sender returns nil
CollectorReceive ==
    /\ collector = "recv"
    /\ \E d \in DOMAIN workers :
          /\ workers[d] = "sending"
          /\ workers' = [workers EXCEPT ![d] = "returned"]
          /\ distro' = d
    /\ collector' = "append"
    /\ UNCHANGED <<providers, parallelism, unranged, downloaders, distros,
                   distroChClosed, egErr, reconcileState, reconciled,
                   reconcileErr>>

\* distros = append(distros, distro)
CollectorAppend ==
    /\ collector = "append"
    /\ distros' = Append(distros, distro)
    /\ collector' = "recv"
    /\ UNCHANGED <<providers, parallelism, unranged, downloaders, workers,
                   distro, distroChClosed, egErr, reconcileState, reconciled,
                   reconcileErr>>

\* the range loop of the collector ends on the closed channel
CollectorExit ==
    /\ collector = "recv"
    /\ distroChClosed
    /\ collector' = "exit"
    /\ UNCHANGED <<providers, parallelism, unranged, downloaders, workers,
                   distro, distros, distroChClosed, egErr, reconcileState,
                   reconciled, reconcileErr>>

\* err := eg.Wait(); close(distroCh)
ReconcileWait ==
    /\ reconcileState = "range"
    /\ unranged = {}
    /\ downloaders = {}
    /\ Active = {}
    /\ distroChClosed' = TRUE
    /\ reconcileState' = "closed"
    /\ UNCHANGED <<providers, parallelism, unranged, downloaders, workers,
                   collector, distro, distros, egErr, reconciled, reconcileErr>>

\* return nil, err or return distros, nil
ReconcileReturn ==
    /\ reconcileState = "closed"
    /\ reconcileState' = "returned"
    /\ IF egErr # NoError
       THEN reconciled' = <<>> /\ reconcileErr' = errReconcileFailed
       ELSE reconciled' \in ReadDistros /\ reconcileErr' = NoError
    /\ UNCHANGED <<providers, parallelism, unranged, downloaders, workers,
                   collector, distro, distros, distroChClosed, egErr>>

\* ------------------------------------------------------------------------
\* grub.DownloadGrub: the caller and the two goroutines at the ends of an
\* io.Pipe. A Write on the pipe returns when a Read has taken its bytes; a
\* Read returns when a Write offers bytes. Nothing closes either end.
\* ------------------------------------------------------------------------
MaxChunks == 2

errDownloadURL == "failed to generate download URL"
errMkdir == "could not create directory for storing grub"
errDownload == "failed to download"
errDownloadStatus == "DownloadStatusError"
errExtract == "failed to extract"

DownloadInit ==
    /\ setup \in {"ok", "url", "mkdir"}
    /\ response \in {"ok", "error", "status"}
    /\ bodyLeft \in 0..MaxChunks
    /\ readsLeft \in 0..(MaxChunks + 1)
    /\ extracted \in {NoError, errExtract}
    /\ pipeWrite = FALSE
    /\ downloadState = "none"
    /\ extractorState = "none"
    /\ grubState = "start"
    /\ grubErr = NoError

\* downloadURL, MkdirAll, io.Pipe and the two eg.Go
DownloadGrubStart ==
    /\ grubState = "start"
    /\ IF setup = "ok"
       THEN /\ grubState' = "wait"
            /\ downloadState' = "request"
            /\ extractorState' = "reading"
            /\ UNCHANGED grubErr
       ELSE /\ grubState' = "returned"
            /\ grubErr' = IF setup = "url" THEN errDownloadURL ELSE errMkdir
            /\ UNCHANGED <<downloadState, extractorState>>
    /\ UNCHANGED <<setup, response, bodyLeft, readsLeft, extracted, pipeWrite>>

\* download: the request, and its return when there is no 200 response
DownloadRequest ==
    /\ downloadState = "request"
    /\ downloadState' = IF response = "ok" THEN "copy" ELSE "failed"
    /\ UNCHANGED <<setup, response, bodyLeft, readsLeft, extracted, pipeWrite,
                   extractorState, grubState, grubErr>>

\* io.Copy(dst, resp.Body): the next chunk is written to the pipe
DownloadWrite ==
    /\ downloadState = "copy"
    /\ bodyLeft > 0
    /\ ~pipeWrite
    /\ pipeWrite' = TRUE
    /\ UNCHANGED <<setup, response, bodyLeft, readsLeft, extracted,
                   downloadState, extractorState, grubState, grubErr>>

\* io.Copy has written the whole body; download returns nil
DownloadReturn ==
    /\ downloadState = "copy"
    /\ bodyLeft = 0
    /\ ~pipeWrite
    /\ downloadState' = "done"
    /\ UNCHANGED <<setup, response, bodyLeft, readsLeft, extracted, pipeWrite,
                   extractorState, grubState, grubErr>>

\* a Read of the extractor takes the chunk of the waiting Write
ExtractorRead ==
    /\ extractorState = "reading"
    /\ readsLeft > 0
    /\ pipeWrite
    /\ pipeWrite' = FALSE
    /\ bodyLeft' = bodyLeft - 1
    /\ readsLeft' = readsLeft - 1
    /\ UNCHANGED <<setup, response, extracted, downloadState, extractorState,
                   grubState, grubErr>>

\* the extractor has read what it reads, and returns
ExtractorReturn ==
    /\ extractorState = "reading"
    /\ readsLeft = 0
    /\ extractorState' = IF extracted = NoError THEN "done" ELSE "failed"
    /\ UNCHANGED <<setup, response, bodyLeft, readsLeft, extracted, pipeWrite,
                   downloadState, grubState, grubErr>>

\* eg.Wait returns when both goroutines have returned
DownloadGrubWait ==
    /\ grubState = "wait"
    /\ downloadState \in {"done", "failed"}
    /\ extractorState \in {"done", "failed"}
    /\ grubState' = "returned"
    /\ grubErr' \in
          {e \in {errDownload, errDownloadStatus, errExtract, NoError} :
              \/ e = errDownload /\ response = "error"
              \/ e = errDownloadStatus /\ response = "status"
              \/ e = errExtract /\ extractorState = "failed"
              \/ e = NoError /\ downloadState = "done" /\ extractorState = "done"}
    /\ UNCHANGED <<setup, response, bodyLeft, readsLeft, extracted, pipeWrite,
                   downloadState, extractorState>>

\* ------------------------------------------------------------------------
\* Specifications
\* ------------------------------------------------------------------------
ResolveIdle ==
    /\ deps = DiamondDeps
    /\ modules = <<>>
    /\ unresolved = <<>>
    /\ allDependencies = <<>>
    /\ rstate = "idle"
    /\ result = <<>>
    /\ rerr = NoError
    /\ pass = 0
    /\ firstResult = <<>>

ImageIdle ==
    /\ elfFile = [machine |-> "EM_X86_64", sections |-> <<>>, symbols |-> <<>>]
    /\ imageMods = <<>>
    /\ istate = "idle"
    /\ image = NoImage
    /\ ierr = NoError
    /\ pe = NoPE
    /\ sink = <<>>
    /\ wi = 0

ModsIdle ==
    /\ msMods = <<>>
    /\ msOffset = 0
    /\ ms = NoSection
    /\ msState = "idle"
    /\ msIndex = 0
    /\ msOut = <<>>

PrefixIdle ==
    /\ prefix = <<>>
    /\ prefixMod = NoModule
    /\ prefixRead = <<>>
    /\ prefixState = "idle"

PlanIdle ==
    /\ planFile = [machine |-> "EM_X86_64", sections |-> <<>>, symbols |-> <<>>]
    /\ planHeaderSize = 0
    /\ planAlignment = 0
    /\ planSections = <<>>
    /\ planSymbols = <<>>
    /\ planErr = NoError
    /\ planState = "idle"

RelocIdle ==
    /\ rsRelocs = <<>>
    /\ rsOffset = 0
    /\ rs = NoSection
    /\ rsDirectory = NoDirectory
    /\ rsOut = <<>>
    /\ rsState = "idle"

AlignIdle ==
    /\ alAddr = <<>>
    /\ alAlignment = <<>>
    /\ alOnce = <<>>
    /\ alTwice = <<>>
    /\ alState = "idle"

ReconcileIdle ==
    /\ providers = <<>>
    /\ parallelism = 0
    /\ unranged = {}
    /\ downloaders = {}
    /\ workers = <<>>
    /\ collector = "idle"
    /\ distro = Unwritten
    /\ distros = <<>>
    /\ distroChClosed = FALSE
    /\ egErr = NoError
    /\ reconcileState = "idle"
    /\ reconciled = <<>>
    /\ reconcileErr = NoError

DownloadIdle ==
    /\ setup = "ok"
    /\ response = "ok"
    /\ bodyLeft = 0
    /\ readsLeft = 0
    /\ extracted = NoError
    /\ pipeWrite = FALSE
    /\ downloadState = "idle"
    /\ extractorState = "idle"
    /\ grubState = "idle"
    /\ grubErr = NoError

\* the calls that are not under way
OthersIdle ==
    PrefixIdle /\ PlanIdle /\ RelocIdle /\ AlignIdle /\ ReconcileIdle /\ DownloadIdle
otherVars == <<prefixVars, planVars, relocVars, alignVars, reconcileVars,
               downloadVars>>

InitResolve == ResolveInit /\ ImageIdle /\ ModsIdle /\ OthersIdle
NextResolve ==
    \/ ResolveStep /\ UNCHANGED <<imageVars, modsVars, otherVars>>
    \/ ResolveFail /\ UNCHANGED <<imageVars, modsVars, otherVars>>
    \/ ResolveFinish /\ UNCHANGED <<imageVars, modsVars, otherVars>>
    \/ ResolveAgain /\ UNCHANGED <<imageVars, modsVars, otherVars>>
SpecResolve == InitResolve /\ [][NextResolve]_vars

\* One call of Resolve, followed to its end. Resolve is one sequential
\* loop: as long as an iteration can run, one runs
InitTermination == TerminationInit /\ ImageIdle /\ ModsIdle /\ OthersIdle
NextTermination ==
    \/ ResolveStep /\ UNCHANGED <<imageVars, modsVars, otherVars>>
    \/ ResolveFail /\ UNCHANGED <<imageVars, modsVars, otherVars>>
    \/ ResolveFinish /\ UNCHANGED <<imageVars, modsVars, otherVars>>
FairResolve == WF_vars(NextTermination)
SpecResolveFair == InitTermination /\ [][NextTermination]_vars /\ FairResolve

InitImage == ImageInit /\ ResolveIdle /\ ModsIdle /\ OthersIdle
NextImage ==
    \/ BuildImage /\ UNCHANGED <<resolveVars, modsVars, otherVars>>
    \/ BuildPE /\ UNCHANGED <<resolveVars, modsVars, otherVars>>
    \/ WriteHeaders /\ UNCHANGED <<resolveVars, modsVars, otherVars>>
    \/ WriteSection /\ UNCHANGED <<resolveVars, modsVars, otherVars>>
    \/ WriteFinalPadding /\ UNCHANGED <<resolveVars, modsVars, otherVars>>
SpecImage == InitImage /\ [][NextImage]_vars

\* the builds of SpecImage and those of EmitInit
InitEmit == (ImageInit \/ EmitInit) /\ ResolveIdle /\ ModsIdle /\ OthersIdle
SpecEmit == InitEmit /\ [][NextImage]_vars

InitMods == ModsInit /\ ResolveIdle /\ ImageIdle /\ OthersIdle
NextMods ==
    \/ ModsNew /\ UNCHANGED <<resolveVars, imageVars, otherVars>>
    \/ ModsWriteInfo /\ UNCHANGED <<resolveVars, imageVars, otherVars>>
    \/ ModsWriteModule /\ UNCHANGED <<resolveVars, imageVars, otherVars>>
    \/ ModsReturn /\ UNCHANGED <<resolveVars, imageVars, otherVars>>
SpecMods == InitMods /\ [][NextMods]_vars

mainVars == <<resolveVars, imageVars, modsVars, reconcileVars, downloadVars>>
MainIdle == ResolveIdle /\ ImageIdle /\ ModsIdle /\ ReconcileIdle /\ DownloadIdle

InitPrefix == PrefixInit /\ MainIdle /\ PlanIdle /\ RelocIdle /\ AlignIdle
NextPrefix ==
    \/ PrefixNew /\ UNCHANGED <<mainVars, planVars, relocVars, alignVars>>
    \/ PrefixReadSome /\ UNCHANGED <<mainVars, planVars, relocVars, alignVars>>
    \/ PrefixReadEOF /\ UNCHANGED <<mainVars, planVars, relocVars, alignVars>>
SpecPrefix == InitPrefix /\ [][NextPrefix]_vars

InitPlan == PlanInit /\ MainIdle /\ PrefixIdle /\ RelocIdle /\ AlignIdle
NextPlan ==
    \/ PlanLayout /\ UNCHANGED <<mainVars, prefixVars, relocVars, alignVars>>
    \/ PlanRelocateSymbols
           /\ UNCHANGED <<mainVars, prefixVars, relocVars, alignVars>>
SpecPlan == InitPlan /\ [][NextPlan]_vars

InitReloc == RelocInit /\ MainIdle /\ PrefixIdle /\ PlanIdle /\ AlignIdle
NextReloc ==
    \/ RelocNew /\ UNCHANGED <<mainVars, prefixVars, planVars, alignVars>>
    \/ RelocCopy /\ UNCHANGED <<mainVars, prefixVars, planVars, alignVars>>
SpecReloc == InitReloc /\ [][NextReloc]_vars

InitAlign == AlignInit /\ MainIdle /\ PrefixIdle /\ PlanIdle /\ RelocIdle
NextAlign ==
    \/ AlignOnce /\ UNCHANGED <<mainVars, prefixVars, planVars, relocVars>>
    \/ AlignTwice /\ UNCHANGED <<mainVars, prefixVars, planVars, relocVars>>
SpecAlign == InitAlign /\ [][NextAlign]_vars

BuildIdle == ResolveIdle /\ ImageIdle /\ ModsIdle /\ PrefixIdle /\ PlanIdle
                /\ RelocIdle /\ AlignIdle

InitReconcile == ReconcileInit /\ BuildIdle /\ DownloadIdle
NextReconcile ==
    \/ ReconcileLatest /\ UNCHANGED <<buildVars, downloadVars>>
    \/ ReconcileGo /\ UNCHANGED <<buildVars, downloadVars>>
    \/ WorkerReconcile /\ UNCHANGED <<buildVars, downloadVars>>
    \/ CollectorReceive /\ UNCHANGED <<buildVars, downloadVars>>
    \/ CollectorAppend /\ UNCHANGED <<buildVars, downloadVars>>
    \/ CollectorExit /\ UNCHANGED <<buildVars, downloadVars>>
    \/ ReconcileWait /\ UNCHANGED <<buildVars, downloadVars>>
    \/ ReconcileReturn /\ UNCHANGED <<buildVars, downloadVars>>
SpecReconcile == InitReconcile /\ [][NextReconcile]_vars

\* every goroutine that can take a step takes one: the Go scheduler runs
\* each runnable goroutine, and a goroutine blocked on the pipe runs again
\* when the other end meets it
InitDownload == DownloadInit /\ BuildIdle /\ ReconcileIdle
NextDownload ==
    \/ DownloadGrubStart /\ UNCHANGED <<buildVars, reconcileVars>>
    \/ DownloadRequest /\ UNCHANGED <<buildVars, reconcileVars>>
    \/ DownloadWrite /\ UNCHANGED <<buildVars, reconcileVars>>
    \/ DownloadReturn /\ UNCHANGED <<buildVars, reconcileVars>>
    \/ ExtractorRead /\ UNCHANGED <<buildVars, reconcileVars>>
    \/ ExtractorReturn /\ UNCHANGED <<buildVars, reconcileVars>>
    \/ DownloadGrubWait /\ UNCHANGED <<buildVars, reconcileVars>>
FairDownload ==
    /\ WF_downloadVars(DownloadGrubStart)
    /\ WF_downloadVars(DownloadRequest)
    /\ WF_downloadVars(DownloadWrite)
    /\ WF_downloadVars(DownloadReturn)
    /\ WF_downloadVars(ExtractorRead)
    /\ WF_downloadVars(ExtractorReturn)
    /\ WF_downloadVars(DownloadGrubWait)
SpecDownloadFair == InitDownload /\ [][NextDownload]_vars /\ FairDownload

\* ------------------------------------------------------------------------
\* Claims about the build
\* ------------------------------------------------------------------------
\* the REL/RELA section of the ELF file, its entries, and the kept section
\* they are attached to (none when the target was excluded)
RelSection == elfFile.sections[Len(elfFile.sections) - 1]
RelTarget == SectionByIndex(image.virtualSections, RelSection.info)
EntryAddend(entry) == IF RelSection.typ = "RELA" THEN entry.addend ELSE 0
EntryWidth(entry) ==
    IF entry.typ = R_X86_64_64 THEN 8
    ELSE IF entry.typ \in {R_X86_64_PC32, R_X86_64_PLT32} THEN 4 ELSE 0

\* entries j and k rewrite a common byte
Overlap(j, k) ==
    LET a == RelSection.entries[j]
        b == RelSection.entries[k]
    IN  /\ a.offset < b.offset + EntryWidth(b)
        /\ b.offset < a.offset + EntryWidth(a)

Alone(k) == \A j \in 1..Len(RelSection.entries) : j # k => ~Overlap(j, k)

\* the bytes of the target section at entry k's operand, in the ELF file
OriginalOperand(k) ==
    LET entry == RelSection.entries[k]
    IN  SubSeq(RelTarget[1].data, entry.offset + 1,
               entry.offset + EntryWidth(entry))

\* the resolved value of the symbol entry k names
SymbolValue(k) == image.symbols[RelSection.entries[k].sym + 1].value

\* entry k's operand has reached the sink
Emitted(k) ==
    /\ image.ok
    /\ RelTarget # <<>>
    /\ StreamLen(sink) >= RelTarget[1].addrInFile + RelSection.entries[k].offset
                              + EntryWidth(RelSection.entries[k])

EmittedOperand(k) ==
    BytesAt(sink, RelTarget[1].addrInFile + RelSection.entries[k].offset,
            EntryWidth(RelSection.entries[k]))

\* the stages of NewImage that come before the entry point check
EarlierStagesSucceed ==
    LET virtualSections == layoutVirtualSections(elfFile, 4096, 4096)
        symbs == relocateSymbols(elfFile, virtualSections)
    IN  /\ elfFile.machine = "EM_X86_64"
        /\ symbs.err = NoError
        /\ relocateAddresses(elfFile, virtualSections, symbs.symbs).err = NoError

NoStartInput == \A k \in 1..Len(elfFile.symbols) : elfFile.symbols[k].name # "_start"

\* the second half of C5: a built image has _start, and Entrypoint is its
\* resolved value (the address of its section plus its value in the section)
EntrypointResolved ==
    image.ok =>
        \E k \in 1..Len(elfFile.symbols) :
            /\ elfFile.symbols[k].name = "_start"
            /\ image.symbols[k + 1].name = "_start"
            /\ Entrypoint(image) = image.symbols[k + 1].value
            /\ Entrypoint(image) =
                   SectionByIndex(image.virtualSections,
                                  elfFile.symbols[k].section)[1].addrInFile
                       + elfFile.symbols[k].value
            /\ pe.ok => pe.optHeader.AddressOfEntryPoint = Entrypoint(image)

\* C5 (as stated): NewImage on an ELF with no symbol named _start fails with
\* NoEntrypoint and returns no image, so nothing is emitted; when NewImage
\* succeeds, _start is in the resolved table and Entrypoint returns its value.
C5_Original ==
    /\ (istate # "start" /\ NoStartInput) =>
            /\ istate = "failed"
            /\ ierr = errNoEntrypoint
            /\ image = NoImage
            /\ sink = <<>>
    /\ EntrypointResolved

\* C5 (amended): NewImage on an ELF with no symbol named _start fails and
\* returns no image, so nothing is emitted; the error is NoEntrypoint when
\* the machine check, symbol resolution and relocation processing succeed,
\* and the error of the first of those that fails otherwise. When NewImage
\* succeeds, _start is in the resolved table and Entrypoint returns its value.
C5_NoEntrypoint ==
    /\ (istate # "start" /\ NoStartInput) =>
            /\ istate = "failed"
            /\ ierr # NoError
            /\ (ierr = errNoEntrypoint <=> EarlierStagesSucceed)
            /\ image = NoImage
            /\ pe = NoPE
            /\ sink = <<>>
    /\ EntrypointResolved

C5_Witness ==
    /\ istate = "failed"
    /\ ierr = errNoEntrypoint
    /\ NoStartInput
    /\ Len(RelSection.entries) > 0
    /\ sink = <<>>

\* the trivial image: one 16-byte executable .text defining _start at 0,
\* no relocation entries, no modules
TrivialImage ==
    /\ elfFile.machine = "EM_X86_64"
    /\ Len(elfFile.sections) = 4
    /\ elfFile.sections[2] = Text16
    /\ RelSection.entries = <<>>
    /\ elfFile.symbols[1].name = "_start"
    /\ imageMods = <<>>

TrivialHeaders ==
    /\ pe.optHeader.SizeOfImage = 8192
    /\ pe.optHeader.AddressOfEntryPoint = 4096
    /\ GetByName(pe.sections, sectionReloc) = <<>>
    /\ pe.optHeader.BaseReloc = [VirtualAddress |-> 0, Size |-> 0]
    /\ Header(pe.sections[1]).Name = ".text"
    /\ Header(pe.sections[1]).Offset = 4096

\* the 16 bytes at 4096, then 4080 zero bytes
TrivialBytes ==
    /\ StreamLen(sink) = 8192
    /\ BytesAt(sink, 4096, 16) = Text16.data
    /\ \A pos \in 4112..8191 : ByteAt(sink, pos) = 0

\* C6 (as stated): the trivial image has exactly one section, .text at file
\* offset 4096 holding the 16 bytes and 4080 zero bytes, SizeOfImage 8192,
\* AddressOfEntryPoint 4096, no .reloc and a zero BASERELOC entry.
C6_Original ==
    (TrivialImage /\ pe.ok) =>
        /\ pe.header.NumberOfSections = 1
        /\ Len(pe.sections) = 1
        /\ TrivialHeaders
        /\ wi >= 2 => BytesAt(sink, 4096, 16) = Text16.data
        /\ StreamLen(sink) > 4112 => TrivialBytes

\* C6 (amended): the trivial image has exactly two sections, .text at file
\* offset 4096 with size 4096, holding the 16 bytes and 4080 zero bytes, and
\* an empty .data at offset 8192 with size 0; SizeOfImage 8192,
\* AddressOfEntryPoint 4096, no .reloc and a zero BASERELOC entry.
C6_TrivialImage ==
    (TrivialImage /\ istate # "start") =>
        /\ pe.ok <=> istate # "built"
        /\ pe.ok =>
            /\ pe.header.NumberOfSections = 2
            /\ Len(pe.sections) = 2
            /\ TrivialHeaders
            /\ Header(pe.sections[1]).Size = 4096
            /\ Header(pe.sections[2]).Name = ".data"
            /\ Header(pe.sections[2]).Offset = 8192
            /\ Header(pe.sections[2]).Size = 0
            /\ wi >= 2 => BytesAt(sink, 4096, 16) = Text16.data
            /\ StreamLen(sink) > 4112 => TrivialBytes

C6_Witness ==
    /\ TrivialImage
    /\ pe.ok
    /\ wi = 2
    /\ StreamLen(sink) = 8192

\* what C7 says of entry k: the 8 emitted bytes are the original operand
\* plus S plus A, and a Dir64 relocation is recorded at its file offset
Dir64Applied(k) ==
    /\ EmittedOperand(k) =
           AddLE(AddLE(OriginalOperand(k), PackLE(SymbolValue(k), 8)),
                 PackLE(EntryAddend(RelSection.entries[k]), 8))
    /\ (OriginalOperand(k) = Zeros(8) /\ EntryAddend(RelSection.entries[k]) = 0)
           => EmittedOperand(k) = PackNat(SymbolValue(k), 8)
    /\ \E r \in 1..Len(image.relocations) :
           image.relocations[r] =
               [Kind |-> 10,
                FileOffset |-> RelTarget[1].addrInFile + RelSection.entries[k].offset]

\* C7 (as stated): for every R_X86_64_64 entry, whatever the number and
\* offsets of the entries attached to the section, the 8 bytes at its file
\* offset in the output are original operand + S + A, little-endian.
C7_Original ==
    \A k \in 1..Len(RelSection.entries) :
        (RelSection.entries[k].typ = R_X86_64_64 /\ Emitted(k)) => Dir64Applied(k)

\* C7 (amended): for every R_X86_64_64 entry whose 8 operand bytes no other
\* entry attached to the section rewrites, the 8 bytes at its file offset in
\* the output are original operand + S + A (modulo 2^64), little-endian;
\* entries that share operand bytes are applied one after the other, each to
\* the bytes the previous one left.
C7_Dir64Operand ==
    \A k \in 1..Len(RelSection.entries) :
        (RelSection.entries[k].typ = R_X86_64_64 /\ Emitted(k) /\ Alone(k))
            => Dir64Applied(k)

C7_Witness ==
    /\ Len(RelSection.entries) = 2
    /\ \A k \in 1..2 : RelSection.entries[k].typ = R_X86_64_64 /\ Emitted(k)
    /\ Alone(1)
    /\ RelSection.entries[1].addend = -4
    /\ OriginalOperand(1) # Zeros(8)

\* C8: an R_X86_64_PC32 entry, and an R_X86_64_PLT32 entry alike, leaves
\* operand + A + S - file_offset (modulo 2^32) in the 4 operand bytes, with
\* file_offset = target.addrInFile + entry.offset, and records no PE
\* relocation: the PE relocations are exactly those of the R_X86_64_64
\* entries. Operand 0, A = -4, S = 4104, file_offset = 4097 gives 03 00 00 00.
C8_PC32Operand ==
    /\ \A k \in 1..Len(RelSection.entries) :
        (RelSection.entries[k].typ \in {R_X86_64_PC32, R_X86_64_PLT32}
            /\ Emitted(k) /\ Alone(k)) =>
            LET entry == RelSection.entries[k]
                fileOffset == RelTarget[1].addrInFile + entry.offset
            IN  /\ AddLE(EmittedOperand(k), PackLE(fileOffset, 4)) =
                       AddLE(AddLE(OriginalOperand(k), PackLE(EntryAddend(entry), 4)),
                             PackLE(SymbolValue(k), 4))
                /\ (OriginalOperand(k) = Zeros(4) /\ EntryAddend(entry) = -4
                        /\ SymbolValue(k) = 4104 /\ fileOffset = 4097)
                       => EmittedOperand(k) = <<3, 0, 0, 0>>
                /\ (OriginalOperand(k) = Zeros(4)
                        /\ SymbolValue(k) + EntryAddend(entry) >= fileOffset)
                       => EmittedOperand(k) =
                              PackNat(SymbolValue(k) + EntryAddend(entry)
                                          - fileOffset, 4)
    /\ (image.ok /\ RelTarget # <<>>) =>
            Len(image.relocations) =
                Cardinality({k \in 1..Len(RelSection.entries) :
                                RelSection.entries[k].typ = R_X86_64_64})

C8_Witness ==
    /\ Len(RelSection.entries) = 1
    /\ RelSection.entries[1] =
           [sym |-> 2, typ |-> R_X86_64_PC32, offset |-> 1, addend |-> -4]
    /\ Emitted(1)
    /\ SymbolValue(1) = 4104
    /\ EmittedOperand(1) = <<3, 0, 0, 0>>
    /\ image.relocations = <<>>

\* C9: SizeOfImage is offset + size of the last emitted section, which is
\* .reloc exactly when there are unresolved relocations, and a WriteTo that
\* succeeds has written exactly SizeOfImage bytes.
C9_SizeOfImage ==
    pe.ok =>
        LET lastSection == Header(Last(pe.sections))
        IN  /\ pe.optHeader.SizeOfImage = lastSection.Offset + lastSection.Size
            /\ (lastSection.Name = ".reloc") <=> (image.relocations # <<>>)
            /\ pe.header.NumberOfSections = Len(pe.sections)
            /\ istate = "done" => StreamLen(sink) = pe.optHeader.SizeOfImage

C9_Witness ==
    /\ istate = "done"
    /\ image.relocations # <<>>
    /\ image.modules # <<>>
    /\ StreamLen(sink) = pe.optHeader.SizeOfImage
    /\ Len(pe.sections) = 4

\* the bytes C10 describes for the modules given, the first n of them
ExpectedInfoSize == 24 + SumSeq([i \in 1..Len(msMods) |-> 8 + msMods[i].payloadSize])

ExpectedInfo ==
    <<109, 105, 109, 103>> \o <<0, 0, 0, 0>> \o <<24, 0, 0, 0, 0, 0, 0, 0>>
        \o PackNat(ExpectedInfoSize, 8)

RECURSIVE ExpectedModules(_)
ExpectedModules(n) ==
    IF n = 0 THEN <<>>
    ELSE ExpectedModules(n - 1)
             \o PackNat(msMods[n].objType, 4)
             \o PackNat(8 + msMods[n].payloadSize, 4)
             \o msMods[n].payload

ExactStreams == \A i \in 1..Len(msMods) : Len(msMods[i].payload) = msMods[i].payloadSize

\* C10: the mods section bytes are the 24-byte module_info {magic
\* 0x676d696d, padding 0, offset 24, size 24 + sum of (8 + payload_size)},
\* then for each module in the given order its 8-byte header {type,
\* 8 + payload_size} and its payload; when every stream delivers exactly
\* payload_size bytes, the number of bytes written is module_info.size.
C10_ModuleSectionBytes ==
    /\ msState \in {"loop", "done"} =>
            msOut = ExpectedInfo \o ExpectedModules(msIndex - 1)
    /\ msState = "done" =>
            /\ msIndex - 1 = Len(msMods)
            /\ ExactStreams => Len(msOut) = ExpectedInfoSize
            /\ ExactStreams => SubSeq(msOut, 17, 24) = PackNat(Len(msOut), 8)
            /\ ms.realSize = ExpectedInfoSize

C10_Witness ==
    /\ msState = "done"
    /\ msMods = <<Module(0, 2, <<170, 187>>),
                  Module(3, 8, <<71, 82, 85, 66, 0, 0, 0, 0>>)>>
    /\ msOut = <<109, 105, 109, 103, 0, 0, 0, 0, 24, 0, 0, 0, 0, 0, 0, 0,
                 50, 0, 0, 0, 0, 0, 0, 0,
                 0, 0, 0, 0, 10, 0, 0, 0, 170, 187,
                 3, 0, 0, 0, 16, 0, 0, 0, 71, 82, 85, 66, 0, 0, 0, 0>>

\* C11: NewPrefixModule(s) is a module of type PREFIX (3) whose payload_size
\* is the least multiple of 8 that is >= len(s) + 1, and whose stream
\* delivers the bytes of s and then zero bytes up to payload_size, so that at
\* least one zero byte ends the string.
C11_PrefixModule ==
    prefixState \in {"new", "eof"} =>
        /\ prefixMod.objType = 3
        /\ prefixMod.payloadSize % 8 = 0
        /\ prefixMod.payloadSize >= Len(prefix) + 1
        /\ prefixMod.payloadSize - 8 < Len(prefix) + 1
        /\ \A i \in 1..Len(prefixRead) :
               prefixRead[i] = IF i <= Len(prefix) THEN prefix[i] ELSE 0
        /\ prefixState = "eof" =>
               /\ Len(prefixRead) = prefixMod.payloadSize
               /\ prefixRead[Len(prefix) + 1] = 0

C11_Witness ==
    /\ prefixState = "eof"
    /\ Len(prefix) = 8
    /\ Len(prefixRead) = 16
    /\ SubSeq(prefixRead, 1, 8) = prefix

\* ------------------------------------------------------------------------
\* Claims about the planner and the symbol resolver
\* ------------------------------------------------------------------------
\* the kept real sections in layout order, and those of them that are NOBITS
PlanKept == planSections[1].realSections \o planSections[2].realSections
PlanNobits == {i \in 1..Len(PlanKept) : PlanKept[i].typ = "NOBITS"}
FirstNobits == PlanKept[CHOOSE i \in PlanNobits : \A j \in PlanNobits : i <= j]

PlanSymbol(k) == planFile.symbols[k]
IsUndefined(k) == PlanSymbol(k).section = 0
IsUndefinedBssStart(k) == IsUndefined(k) /\ PlanSymbol(k).name = "__bss_start"
IsUndefinedEnd(k) == IsUndefined(k) /\ PlanSymbol(k).name = "end"
IsUndefinedOther(k) ==
    IsUndefined(k) /\ PlanSymbol(k).name \notin {"__bss_start", "end"}

\* symbol k can be given a value
Resolvable(k) ==
    IF IsUndefined(k)
    THEN IsUndefinedEnd(k) \/ (IsUndefinedBssStart(k) /\ PlanNobits # {})
    ELSE \/ PlanSymbol(k).section = 65521
         \/ \E i \in 1..Len(PlanKept) : PlanKept[i].index = PlanSymbol(k).section

\* symbol k is the first of the table that cannot be given a value
FirstUnresolvable(k) == ~Resolvable(k) /\ \A j \in 1..(k - 1) : Resolvable(j)

PlanResolved == planState \in {"resolved", "failed"}

\* every undefined __bss_start of a resolved table has the address of the
\* first NOBITS section; no NOBITS section and no __bss_start is no failure
BssStartValue ==
    /\ planState = "resolved" =>
            \A k \in 1..Len(planFile.symbols) :
                IsUndefinedBssStart(k) =>
                    /\ PlanNobits # {}
                    /\ planSymbols[k + 1] =
                           [PlanSymbol(k) EXCEPT !.value = FirstNobits.addrInFile]
    /\ (PlanNobits = {}
            /\ \A k \in 1..Len(planFile.symbols) :
                   PlanSymbol(k).name # "__bss_start" /\ Resolvable(k))
           => planState = "resolved"

\* C12 (as stated): an undefined __bss_start resolves to the addrInFile of
\* the first NOBITS real section in layout order; if no NOBITS section was
\* kept, symbol resolution fails with BSSSymbolButNoBSS; an ELF with no
\* NOBITS section and no __bss_start still resolves.
C12_Original ==
    PlanResolved =>
        /\ BssStartValue
        /\ (PlanNobits = {} /\ \E k \in 1..Len(planFile.symbols) : IsUndefinedBssStart(k))
               => (planState = "failed" /\ planErr = "BSSSymbolButNoBSS")

\* C12 (amended): as stated, except that without a kept NOBITS section the
\* resolution fails with the error of the first symbol of the table that
\* cannot be resolved: BSSSymbolButNoBSS exactly when that symbol is an
\* undefined __bss_start.
C12_BssStart ==
    PlanResolved =>
        /\ BssStartValue
        /\ (PlanNobits = {} /\ \E k \in 1..Len(planFile.symbols) : IsUndefinedBssStart(k))
               => /\ planState = "failed"
                  /\ planSymbols = <<>>
        /\ planErr = "BSSSymbolButNoBSS" <=>
               \E k \in 1..Len(planFile.symbols) :
                   FirstUnresolvable(k) /\ IsUndefinedBssStart(k)

C12_Witness ==
    /\ planState = "resolved"
    /\ Len(planFile.symbols) = 2
    /\ Cardinality(PlanNobits) = 2
    /\ IsUndefinedBssStart(2)
    /\ planSymbols[3].value = PlanKept[1].addrInFile
    /\ planSymbols[3].value < PlanKept[2].addrInFile

\* the end of the last virtual section
PlanEnd == planSections[Len(planSections)].offset + planSections[Len(planSections)].size

EndValue ==
    planState = "resolved" =>
        \A k \in 1..Len(planFile.symbols) :
            IsUndefinedEnd(k) =>
                planSymbols[k + 1] = [PlanSymbol(k) EXCEPT !.value = PlanEnd]

\* C13 (as stated): an undefined end resolves to offset + size of the last
\* virtual section, and every undefined symbol named neither __bss_start
\* nor end makes the resolution fail with UnrecognizedUndefinedSymbol and
\* return no symbol table.
C13_Original ==
    PlanResolved =>
        /\ EndValue
        /\ (\E k \in 1..Len(planFile.symbols) : IsUndefinedOther(k))
               => /\ planState = "failed"
                  /\ planErr = "UnrecognizedUndefinedSymbol"
                  /\ planSymbols = <<>>

\* C13 (amended): as stated, except that the resolution fails with the
\* error of the first symbol of the table that cannot be resolved:
\* UnrecognizedUndefinedSymbol exactly when that symbol is an undefined
\* symbol named neither __bss_start nor end.
C13_UndefinedSymbols ==
    PlanResolved =>
        /\ EndValue
        /\ (\E k \in 1..Len(planFile.symbols) : IsUndefinedOther(k))
               => /\ planState = "failed"
                  /\ planSymbols = <<>>
        /\ planErr = "UnrecognizedUndefinedSymbol" <=>
               \E k \in 1..Len(planFile.symbols) :
                   FirstUnresolvable(k) /\ IsUndefinedOther(k)

C13_Witness ==
    /\ planState = "failed"
    /\ planErr = "UnrecognizedUndefinedSymbol"
    /\ planSymbols = <<>>
    /\ Len(planFile.symbols) = 2
    /\ IsUndefinedEnd(1)
    /\ IsUndefinedOther(2)

PlanPlanned == planState \in {"planned", "resolved", "failed"}

\* C14: every virtual section starts and ends on a multiple of the page
\* alignment P; the first starts at or after the header size H and each
\* other one at or after the end of the one before it.
C14_PageAligned ==
    PlanPlanned =>
        /\ \A v \in 1..Len(planSections) :
               /\ planSections[v].offset % planAlignment = 0
               /\ (planSections[v].offset + planSections[v].size) % planAlignment = 0
               /\ planSections[v].size >= 0
               /\ v > 1 => planSections[v].offset >=
                               planSections[v - 1].offset + planSections[v - 1].size
        /\ planSections[1].offset >= planHeaderSize

C14_Witness ==
    /\ planState = "planned"
    /\ planAlignment = 24
    /\ planSections[1].offset > planHeaderSize
    /\ planSections[1].size > 0
    /\ planSections[2].size > 0
    /\ planSections[2].realSections[1].addrInFile > planSections[2].offset

\* C15: every kept real section lies inside its virtual section, at a
\* multiple of its own alignment when that is positive, and the sections of
\* a virtual section follow one another in layout order without overlap.
C15_RealSectionsPlaced ==
    PlanPlanned =>
        \A v \in 1..Len(planSections) :
            LET virt == planSections[v]
                real == virt.realSections
            IN  \A i \in 1..Len(real) :
                    /\ real[i].addrInFile >= virt.offset
                    /\ real[i].addralign > 0 =>
                           real[i].addrInFile % real[i].addralign = 0
                    /\ i > 1 => real[i].addrInFile >=
                                    real[i - 1].addrInFile + real[i - 1].size
                    /\ real[i].addrInFile + real[i].size <= virt.offset + virt.size

C15_Witness ==
    /\ planState = "planned"
    /\ Len(planSections[2].realSections) = 2
    /\ planSections[2].realSections[1].addrInFile > planSections[2].offset
    /\ planSections[2].realSections[2].addralign = 16
    /\ planSections[2].realSections[2].addrInFile >
           planSections[2].realSections[1].addrInFile
               + planSections[2].realSections[1].size

\* the indices, in the ELF section table, of the real sections of a virtual
\* section, and the section of the table with a given index
PlanIndices(v) ==
    [i \in 1..Len(planSections[v].realSections) |->
        planSections[v].realSections[i].index]
TableSection(index) == planFile.sections[index + 1]
TableIndices == 0..(Len(planFile.sections) - 1)

\* C16: the planner returns exactly two virtual sections, TEXT then DATA;
\* TEXT holds the alloc+exec sections, DATA the alloc non-exec sections, the
\* NOBITS ones after all the others; every other section is in neither,
\* every kept section appears once, and within TEXT, within the non-NOBITS
\* part of DATA and within its NOBITS part the sections are in table order.
C16_TwoVirtualSections ==
    PlanPlanned =>
        /\ Len(planSections) = 2
        /\ planSections[1].kind = "text"
        /\ planSections[2].kind = "data"
        /\ Range(PlanIndices(1)) =
               {x \in TableIndices : TableSection(x).exec /\ TableSection(x).alloc}
        /\ Range(PlanIndices(2)) =
               {x \in TableIndices : ~TableSection(x).exec /\ TableSection(x).alloc}
        /\ IsInjective(PlanIndices(1) \o PlanIndices(2))
        /\ \A v \in 1..2 :
               \A i \in 1..Len(planSections[v].realSections) :
                   LET real == planSections[v].realSections[i]
                   IN  /\ real.name = TableSection(real.index).name
                       /\ real.typ = TableSection(real.index).typ
                       /\ real.size = TableSection(real.index).size
        /\ \A i, j \in 1..Len(PlanIndices(1)) :
               i < j => PlanIndices(1)[i] < PlanIndices(1)[j]
        /\ \A i, j \in 1..Len(PlanIndices(2)) :
               i < j =>
                   LET a == planSections[2].realSections[i]
                       b == planSections[2].realSections[j]
                   IN  /\ a.typ = "NOBITS" => b.typ = "NOBITS"
                       /\ (a.typ = "NOBITS" <=> b.typ = "NOBITS")
                              => a.index < b.index

C16_Witness ==
    /\ planState = "planned"
    /\ Len(planFile.sections) = 4
    /\ planFile.sections[2].typ = "NOBITS"
    /\ planFile.sections[3] = Data8
    /\ PlanIndices(1) = <<>>
    /\ PlanIndices(2) = <<2, 1>>

\* ------------------------------------------------------------------------
\* Claims about the base-relocation section
\* ------------------------------------------------------------------------
RECURSIVE LEValue(_)
LEValue(bytes) == IF bytes = <<>> THEN 0 ELSE Head(bytes) + 256 * LEValue(Tail(bytes))

\* the 32-bit and the 16-bit little-endian field at a position of the
\* section's bytes
Field32(pos) == LEValue(BytesAt(rs.data, pos, 4))
Field16(pos) == LEValue(BytesAt(rs.data, pos, 2))

\* the bytes of a stream from position from up to, not including, position
\* to are all zero
RECURSIVE ZeroBetween(_, _, _)
ZeroBetween(stream, from, to) ==
    IF from >= to THEN TRUE
    ELSE IF stream = <<>> THEN FALSE
    ELSE LET run == Head(stream)
             n == RunLen(run)
         IN  IF from >= n THEN ZeroBetween(Tail(stream), from - n, to - n)
             ELSE /\ \/ run[1] = "z"
                     \/ /\ run[1] = "d"
                        /\ \A i \in (from + 1)..(IF to < n THEN to ELSE n) :
                               run[2][i] = 0
                  /\ ZeroBetween(Tail(stream), 0, to - n)

\* where the blocks start, following each block_sz field from position pos
RECURSIVE BlockStarts(_)
BlockStarts(pos) ==
    IF pos >= StreamLen(rs.data) THEN <<>>
    ELSE IF Field32(pos + 4) < 8 THEN <<pos>>
    ELSE <<pos>> \o BlockStarts(pos + Field32(pos + 4))

\* the page of a file offset, the pages of the relocations given, and the
\* relocations of a page in the order given
PageOf(fileOffset) == fileOffset - (fileOffset % 4096)
RelocPages == {PageOf(rsRelocs[i].FileOffset) : i \in 1..Len(rsRelocs)}
RelocsOfPage(page) ==
    SelectSeq(rsRelocs, LAMBDA reloc : PageOf(reloc.FileOffset) = page)

RelocMade == rsState \in {"new", "eof"}

\* C17: the section is one block per distinct page of the relocations, in
\* strictly ascending page_rva order; the block of a page holds one entry
\* (kind << 12) | (file_offset - page_rva) for every relocation of that
\* page, and nothing else but zero bytes.
C17_RelocBlocks ==
    RelocMade =>
        LET starts == BlockStarts(0)
        IN  /\ Len(starts) = Cardinality(RelocPages)
            /\ {Field32(starts[k]) : k \in 1..Len(starts)} = RelocPages
            /\ \A k \in 1..(Len(starts) - 1) :
                   Field32(starts[k]) < Field32(starts[k + 1])
            /\ \A k \in 1..Len(starts) :
                   LET page == Field32(starts[k])
                       mine == RelocsOfPage(page)
                   IN  /\ \A j \in 1..Len(mine) :
                              Field16(starts[k] + 8 + 2 * (j - 1)) =
                                  mine[j].Kind * 4096 + (mine[j].FileOffset - page)
                       /\ ZeroBetween(rs.data, starts[k] + 8 + 2 * Len(mine),
                                      starts[k] + Field32(starts[k] + 4))
            /\ rsState = "eof" => rsOut = rs.data

C17_Witness ==
    /\ rsState = "eof"
    /\ Len(rsRelocs) = 3
    /\ rsRelocs[1].FileOffset = 16376
    /\ rsRelocs[2].FileOffset = 4104
    /\ rsRelocs[3].FileOffset = 4096
    /\ rsRelocs[3].Kind = 10
    /\ Len(BlockStarts(0)) = 2
    /\ LEValue(BytesAt(rsOut, 0, 4)) = 4096
    /\ LEValue(BytesAt(rsOut, 10, 2)) = 40960
    /\ LEValue(BytesAt(rsOut, 12, 4)) = 12288

\* the size of the block of a page before the section is padded, and the
\* size of the section
RawBlockSize(page) ==
    LET raw == 8 + 2 * Len(RelocsOfPage(page))
    IN  raw + ((4 - (raw % 4)) % 4)
RECURSIVE RawSizes(_)
RawSizes(pages) ==
    IF pages = {} THEN 0
    ELSE LET page == CHOOSE p \in pages : TRUE
         IN  RawBlockSize(page) + RawSizes(pages \ {page})
RawTotal == RawSizes(RelocPages)
RelocSectionSize ==
    LET end == rsOffset + RawTotal
    IN  end + ((4096 - (end % 4096)) % 4096) - rsOffset

\* C18: every block but the last has block_sz = align(8 + 2 * |entries|, 4);
\* the last is enlarged with zero bytes so that the block sizes add up to
\* align(section_offset + raw_total, P) - section_offset, which is the size
\* in the section header and in the BASERELOC directory entry and the
\* number of bytes the section emits.
C18_RelocSectionSize ==
    RelocMade =>
        LET starts == BlockStarts(0)
            last == starts[Len(starts)]
            size == RelocSectionSize
        IN  /\ \A k \in 1..(Len(starts) - 1) :
                   Field32(starts[k] + 4) = RawBlockSize(Field32(starts[k]))
            /\ Field32(last + 4) >= RawBlockSize(Field32(last))
            /\ ZeroBetween(rs.data, last + RawBlockSize(Field32(last)),
                           last + Field32(last + 4))
            /\ SumSeq([k \in 1..Len(starts) |-> Field32(starts[k] + 4)]) = size
            /\ StreamLen(rs.data) = size
            /\ Header(rs).Size = size
            /\ Header(rs).VirtualSize = size
            /\ rsDirectory = [VirtualAddress |-> rsOffset, Size |-> size]
            /\ (rsOffset + size) % 4096 = 0
            /\ rsState = "eof" => StreamLen(rsOut) = size

C18_Witness ==
    /\ rsState = "eof"
    /\ rsOffset = 20488
    /\ Len(rsRelocs) = 3
    /\ Len(BlockStarts(0)) = 2
    /\ Field32(4) = 12
    /\ Field32(16) = 4076
    /\ StreamLen(rsOut) = 4088
    /\ rsDirectory.Size = 4088

\* the image of C19: .data at 8192, _start at 4096, and one unresolved
\* relocation, of kind Dir64, at file offset 8192
SingleDir64Image ==
    /\ image.ok
    /\ image.relocations = <<[Kind |-> 10, FileOffset |-> 8192]>>
    /\ Entrypoint(image) = 4096
    /\ image.virtualSections[2].offset = 8192
    /\ image.modules = <<>>

\* the .reloc section of the PE image, if any
RelocOfPE == GetByName(pe.sections, ".reloc")

\* the first block starts with page_rva 8192, and its first entry is 0xA000
FirstBlock8192 ==
    /\ Len(RelocOfPE) = 1
    /\ LEValue(BytesAt(RelocOfPE[1].data, 0, 4)) = 8192
    /\ LEValue(BytesAt(RelocOfPE[1].data, 8, 2)) = 40960
    /\ pe.optHeader.BaseReloc =
           [VirtualAddress |-> Header(RelocOfPE[1]).Offset,
            Size |-> Header(RelocOfPE[1]).Size]
    /\ Header(RelocOfPE[1]).Size > 0

\* C19 (as stated): the image with the single R_X86_64_64 relocation at file
\* offset 8192 has a .reloc section of one block with page_rva = 8192,
\* block_sz = 12 and the one entry 0xA000, and the BASERELOC directory
\* entry points at the section.
C19_Original ==
    (SingleDir64Image /\ pe.ok) =>
        /\ FirstBlock8192
        /\ LEValue(BytesAt(RelocOfPE[1].data, 4, 4)) = 12

\* C19 (amended): the .reloc section is one block with page_rva = 8192 and
\* the one entry 0xA000 whose block_sz is 4096, the size of the section: the
\* 10 bytes of the header and the entry, then zero bytes up to the page
\* boundary; the BASERELOC directory entry is {12288, 4096}, where the
\* section is written.
C19_SingleDir64Block ==
    (SingleDir64Image /\ istate # "built") =>
        /\ pe.ok
        /\ FirstBlock8192
        /\ LEValue(BytesAt(RelocOfPE[1].data, 4, 4)) = 4096
        /\ StreamLen(RelocOfPE[1].data) = 4096
        /\ ZeroBetween(RelocOfPE[1].data, 10, 4096)
        /\ pe.optHeader.BaseReloc = [VirtualAddress |-> 12288, Size |-> 4096]
        /\ pe.header.NumberOfSections = 3
        /\ istate = "done" =>
               /\ StreamLen(sink) = 16384
               /\ BytesAt(sink, 12288, 10) = <<0, 32, 0, 0, 0, 16, 0, 0, 0, 160>>
               /\ ZeroBetween(sink, 12298, 16384)

C19_Witness ==
    /\ istate = "done"
    /\ SingleDir64Image
    /\ StreamLen(sink) = 16384
    /\ BytesAt(sink, 12288, 10) = <<0, 32, 0, 0, 0, 16, 0, 0, 0, 160>>

\* r is the least multiple of a that is >= addr, a # 0: r % a = 0, r >= addr
\* and r - addr < a
LeastMultiple(r, addr, a) ==
    /\ DivRemLE(r, a)[2] = Zeros(Len(r))
    /\ GeLE(r, addr)
    /\ ~GeLE(SubLE(r, addr), a)

IsZeroLE(a) == a = Zeros(Len(a))

\* bit i of x, bit 0 the least significant
BitAt(x, i) == (x[(i \div 8) + 1] \div (2 ^ (i % 8))) % 2

IsPowerOfTwoLE(a) ==
    Cardinality({i \in 0..(8 * Len(a) - 1) : BitAt(a, i) = 1}) = 1

\* addr + a - 1 is representable in the type, a # 0
AlignNoWrap(addr, a) == GeLE(SubLE(AddLE(addr, a), PackLE(1, Len(a))), addr)

\* C20 as stated: Address(addr, a) is addr when a = 0 and otherwise the least
\* multiple of a that is >= addr, for every addr and a of the type, and
\* aligning the result again returns it unchanged
C20_Original ==
    /\ alState \in {"once", "twice"} =>
          IF IsZeroLE(alAlignment) THEN alOnce = alAddr
          ELSE LeastMultiple(alOnce, alAddr, alAlignment)
    /\ alState = "twice" => alTwice = alOnce

\* C20: Address(addr, a) is addr when a = 0; when a # 0 and addr + a - 1 is
\* representable in the type it is the least multiple of a that is >= addr;
\* and when a is 0 or a power of two, aligning the result again returns it
\* unchanged, wrap-around or not
C20_Address ==
    /\ alState \in {"once", "twice"} =>
          IF IsZeroLE(alAlignment) THEN alOnce = alAddr
          ELSE AlignNoWrap(alAddr, alAlignment)
                   => LeastMultiple(alOnce, alAddr, alAlignment)
    /\ alState = "twice" /\ (IsZeroLE(alAlignment) \/ IsPowerOfTwoLE(alAlignment))
          => alTwice = alOnce

\* uint32: 2^32 - 4097 aligned to 4096 is 2^32 - 4096, the sum 2^32 - 2 being
\* the last but one value of the type, and aligning again changes nothing
C20_Witness ==
    /\ alState = "twice"
    /\ alAddr = PackLE(-4097, 4)
    /\ alAlignment = PackLE(4096, 4)
    /\ AlignNoWrap(alAddr, alAlignment)
    /\ alOnce = <<0, 240, 255, 255>>
    /\ alTwice = alOnce

\* symbol k is defined in a section: neither SHN_UNDEF nor SHN_ABS
IsDefinedInSection(k) == PlanSymbol(k).section \notin {0, 65521}
IsAbsolute(k) == PlanSymbol(k).section = 65521

\* the kept real sections whose index in the section table is n
KeptWithIndex(n) == {i \in 1..Len(PlanKept) : PlanKept[i].index = n}

\* C21: symbol resolution adds to the value of every symbol defined in a
\* section the addrInFile of the kept real section with that index, fails
\* and returns no table if that index is not among the kept sections, leaves
\* every SHN_ABS symbol as it is, and keeps the order, names and sections of
\* the symbols (after the undefined symbol it puts in front).
C21_SymbolValues ==
    /\ planState = "resolved" =>
          /\ Len(planSymbols) = Len(planFile.symbols) + 1
          /\ \A k \in 1..Len(planFile.symbols) :
                /\ planSymbols[k + 1].name = PlanSymbol(k).name
                /\ planSymbols[k + 1].section = PlanSymbol(k).section
                /\ IsAbsolute(k) => planSymbols[k + 1] = PlanSymbol(k)
                /\ IsDefinedInSection(k) =>
                      /\ KeptWithIndex(PlanSymbol(k).section) # {}
                      /\ \A i \in KeptWithIndex(PlanSymbol(k).section) :
                            planSymbols[k + 1].value =
                                PlanSymbol(k).value + PlanKept[i].addrInFile
    /\ (PlanResolved /\ \E k \in 1..Len(planFile.symbols) :
                            IsDefinedInSection(k)
                            /\ KeptWithIndex(PlanSymbol(k).section) = {})
          => planState = "failed" /\ planSymbols = <<>>

\* an absolute symbol and then _start, defined in the second kept section's
\* table index 1, resolved: the data section of the ELF comes first in the
\* table and is laid out after the text
C21_Witness ==
    /\ planState = "resolved"
    /\ Len(planFile.symbols) = 2
    /\ IsAbsolute(1)
    /\ planSymbols[2].value = 7
    /\ PlanSymbol(2).name = "_start"
    /\ Len(PlanKept) = 2
    /\ PlanKept[2].index = 1
    /\ planSymbols[3].value = PlanKept[2].addrInFile + 4
    /\ PlanKept[2].addrInFile > PlanKept[1].addrInFile

\* the value of resolved symbol k lies in a virtual section
InVirtualSection(k) ==
    \E v \in 1..Len(planSections) :
        /\ planSections[v].offset <= planSymbols[k + 1].value
        /\ planSymbols[k + 1].value < planSections[v].offset + planSections[v].size

\* C22: after successful symbol resolution every symbol defined in a section
\* has its value in [offset, offset + size) of some virtual section,
\* whatever its value in the ELF (the end of its section included).
C22_SymbolsInImage ==
    planState = "resolved" =>
        \A k \in 1..Len(planFile.symbols) :
            IsDefinedInSection(k) => InVirtualSection(k)

\* with H = P = 4096: a .bss of 4096 bytes alone, and a symbol at its end,
\* which resolves to 8192, the end of the last virtual section
C22_Witness ==
    /\ planState = "resolved"
    /\ planHeaderSize = 4096
    /\ planAlignment = 4096
    /\ Len(planFile.symbols) = 1
    /\ PlanSymbol(1).value = 4096
    /\ Len(PlanKept) = 1
    /\ PlanKept[1].size = 4096
    /\ planSymbols[2].value = 8192
    /\ planSections[2].offset + planSections[2].size = 8192

\* the section of the ELF file with index n is one the planner keeps
IsKeptIndex(n) ==
    /\ n \in 1..(Len(elfFile.sections) - 1)
    /\ elfFile.sections[n + 1].alloc

\* NewImage reaches the processing of the relocation entries: the machine
\* is supported, every symbol resolves, the relocation section names a kept
\* section with data, and every entry is attached
EntriesProcessed ==
    /\ istate # "start"
    /\ elfFile.machine = "EM_X86_64"
    /\ \A k \in 1..Len(elfFile.symbols) : IsKeptIndex(elfFile.symbols[k].section)
    /\ IsKeptIndex(RelSection.info)
    /\ elfFile.sections[RelSection.info + 1].typ = "PROGBITS"
    /\ \A k \in 1..Len(RelSection.entries) :
          /\ RelSection.entries[k].sym <= Len(elfFile.symbols)
          /\ RelSection.entries[k].typ \in {0, 1, 2, 4}

TargetSize == elfFile.sections[RelSection.info + 1].size

\* entry k starts at or after the end of the section; entry k starts inside
\* the section and its operand reaches past the end
StartsPastEnd(k) == RelSection.entries[k].offset >= TargetSize
OperandCut(k) ==
    /\ RelSection.entries[k].offset < TargetSize
    /\ RelSection.entries[k].offset + EntryWidth(RelSection.entries[k]) > TargetSize
OperandInside(k) ==
    RelSection.entries[k].offset + EntryWidth(RelSection.entries[k]) <= TargetSize

\* entry k is the first that cannot be applied
FirstNotApplied(k) ==
    /\ StartsPastEnd(k) \/ OperandCut(k)
    /\ \A j \in 1..(k - 1) : ~StartsPastEnd(j) /\ ~OperandCut(j)

RelSectionSkipped == istate # "start" /\ ~IsKeptIndex(RelSection.info)

\* the ELF file without its relocation section
WithoutRelSection ==
    [elfFile EXCEPT !.sections =
        SubSeq(elfFile.sections, 1, Len(elfFile.sections) - 2)
            \o <<elfFile.sections[Len(elfFile.sections)]>>]

\* the errors that reading, validating or applying a relocation entry gives
EntryErrors ==
    {"BadSymbolIndex", "UnsupportedRelocation", "RelocationOutOfBounds",
     "InvalidRelocation"}

\* the bytes of kept real section i have reached the sink
SectionEmitted(i) ==
    LET kept == KeptSections(image.virtualSections)
    IN  StreamLen(sink) >= kept[i].addrInFile + kept[i].size

\* C24: a REL/RELA section whose info names a section the planner excluded
\* is skipped without error: no entry of it is validated or attached, no
\* unresolved relocation comes of it, and the image (the relocations and
\* the bytes of every kept section included) is that of the same ELF file
\* without the relocation section, whatever the types and symbol indices
\* of its entries.
C24_SkippedRelSection ==
    RelSectionSkipped =>
        /\ ierr \notin EntryErrors
        /\ \E without \in {NewImage(WithoutRelSection, imageMods, 4096)} :
              /\ image = without.image
              /\ pe = NoPE => ierr = without.err
        /\ image.ok =>
              /\ image.relocations = <<>>
              /\ LET kept == KeptSections(image.virtualSections)
                 IN  \A i \in 1..Len(kept) :
                        /\ kept[i].relocations = <<>>
                        /\ (kept[i].typ = "PROGBITS" /\ SectionEmitted(i)) =>
                              BytesAt(sink, kept[i].addrInFile, kept[i].size)
                                  = kept[i].data

\* a relocation section on .comment whose entry has an unknown type and a
\* symbol index past the table, and the text section written out
C24_Witness ==
    /\ wi = 2
    /\ RelSectionSkipped
    /\ Len(RelSection.entries) = 1
    /\ RelSection.entries[1].typ = 3
    /\ RelSection.entries[1].sym = 3
    /\ image.ok
    /\ SectionEmitted(1)

\* NewImage reaches the reading of the relocation entries: the machine is
\* supported, every symbol resolves and the relocation section names a kept
\* section
EntriesRead ==
    /\ istate # "start"
    /\ elfFile.machine = "EM_X86_64"
    /\ \A k \in 1..Len(elfFile.symbols) : IsKeptIndex(elfFile.symbols[k].section)
    /\ IsKeptIndex(RelSection.info)

\* ELF symbol n (n >= 1) resolved: its value plus the address of its section
ElfSymbolResolved(n) ==
    LET symb == elfFile.symbols[n]
    IN  [symb EXCEPT !.value =
            symb.value + SectionByIndex(image.virtualSections, symb.section)[1].addrInFile]

\* entry k names a symbol past the resolved table; entry k has a type the
\* dispatch table does not know
BadSymbol(k) == RelSection.entries[k].sym >= Len(elfFile.symbols) + 1
UnknownType(k) == RelSection.entries[k].typ \notin {0, 1, 2, 4}
FirstInvalid(k) ==
    /\ BadSymbol(k) \/ UnknownType(k)
    /\ \A j \in 1..(k - 1) : ~BadSymbol(j) /\ ~UnknownType(j)

\* the resolved table is the ELF reader's list behind a zero-valued
\* undefined symbol, and an R_X86_64_64 entry naming symbol index n adds the
\* resolved value of ELF symbol n
SymbolTableAligned ==
    image.ok =>
        /\ Len(image.symbols) = Len(elfFile.symbols) + 1
        /\ image.symbols[1] = [name |-> "", section |-> 0, value |-> 0]
        /\ \A n \in 1..Len(elfFile.symbols) :
              image.symbols[n + 1] = ElfSymbolResolved(n)
        /\ \A k \in 1..Len(RelSection.entries) :
              (RelSection.entries[k].typ = 1 /\ Emitted(k) /\ Alone(k)) =>
                  EmittedOperand(k) =
                      AddLE(AddLE(OriginalOperand(k),
                                  PackLE(ElfSymbolResolved(RelSection.entries[k].sym).value, 8)),
                            PackLE(EntryAddend(RelSection.entries[k]), 8))

\* C25 (as stated): the resolved table has one more entry than the ELF
\* reader's list, entry 0 a zero-valued undefined symbol and entry i the
\* resolved ELF symbol i, so that an entry with symbol index k takes S from
\* ELF symbol k; an entry whose symbol index is >= the table length fails
\* with BadSymbolIndex, and one of an unknown type with
\* UnsupportedRelocation.
C25_Original ==
    /\ SymbolTableAligned
    /\ EntriesRead =>
          /\ (\E k \in 1..Len(RelSection.entries) : BadSymbol(k))
                => (istate = "failed" /\ ierr = "BadSymbolIndex")
          /\ (\E k \in 1..Len(RelSection.entries) : UnknownType(k))
                => (istate = "failed" /\ ierr = "UnsupportedRelocation")

\* C25 (amended): the table as stated; of each entry the symbol index is
\* checked first and the type second, and the first entry that fails either
\* check ends NewImage: with BadSymbolIndex when its symbol index is >= the
\* table length (whatever its type), with UnsupportedRelocation when its
\* symbol index is in the table and its type is unknown.
C25_SymbolIndices ==
    /\ SymbolTableAligned
    /\ EntriesRead =>
          /\ ierr = "BadSymbolIndex" <=>
                \E k \in 1..Len(RelSection.entries) :
                    FirstInvalid(k) /\ BadSymbol(k)
          /\ ierr = "UnsupportedRelocation" <=>
                \E k \in 1..Len(RelSection.entries) :
                    FirstInvalid(k) /\ ~BadSymbol(k)
          /\ (\E k \in 1..Len(RelSection.entries) : FirstInvalid(k))
                => (istate = "failed" /\ ~image.ok)

\* an entry on .text of an unknown type that names symbol index 3, the
\* length of the resolved table
C25_Witness ==
    /\ istate = "failed"
    /\ ierr = "BadSymbolIndex"
    /\ EntriesRead
    /\ Len(elfFile.symbols) = 2
    /\ Len(RelSection.entries) = 1
    /\ RelSection.entries[1].sym = 3
    /\ RelSection.entries[1].typ = 3

\* Image.WriteTo is at section wi
AtSection == istate = "sections" /\ wi <= Len(pe.sections)

\* the image is one that NewImage built
FromNewImage == image.ok /\ elfFile.sections # <<>>

\* the step at section wi: past its offset already, nothing is written and
\* WriteTo stops with SectionOffsetInvalid; otherwise zeros are written up
\* to the offset, the section's bytes follow, and the next section is wi + 1
SectionStep ==
    AtSection =>
        LET offset == Header(pe.sections[wi]).Offset
            position == StreamLen(sink)
        IN  IF position > offset
            THEN /\ istate' = "err"
                 /\ ierr' = "SectionOffsetInvalid"
                 /\ sink' = sink
                 /\ wi' = wi
            ELSE /\ ierr' # "SectionOffsetInvalid"
                 /\ Len(sink') >= Len(sink)
                 /\ SubSeq(sink', 1, Len(sink)) = sink
                 /\ LET added == SubSeq(sink', Len(sink) + 1, Len(sink'))
                    IN  IF position < offset
                        THEN /\ added # <<>>
                             /\ added[1] = <<"z", offset - position>>
                             /\ Tail(added) = SectionBytes(pe.sections[wi]).bytes
                        ELSE added = SectionBytes(pe.sections[wi]).bytes
                 /\ wi' \in {wi, wi + 1}
                 /\ wi' = wi + 1 <=> istate' = "sections"

\* C26: the sections are written in section-table order; before each one
\* zeros are written up to its header's file offset, so that its first byte
\* is at that offset; if the output is past that offset already, WriteTo
\* stops with SectionOffsetInvalid and writes nothing of the section. For
\* an image NewImage built (at most 4 sections, H = 4096) the headers end at
\* or before H, and the error does not occur for the first section.
C26_SectionOffsets ==
    /\ [][SectionStep]_vars
    /\ [](ierr = "SectionOffsetInvalid" =>
            /\ istate = "err"
            /\ wi <= Len(pe.sections)
            /\ StreamLen(sink) > Header(pe.sections[wi]).Offset)
    /\ []((FromNewImage /\ pe.ok) =>
            /\ Len(pe.sections) <= 4
            /\ HeaderBytes(pe) <= 4096
            /\ Header(pe.sections[1]).Offset >= 4096
            /\ wi = 1 => ierr # "SectionOffsetInvalid")

\* two sections at the same offset: the first written, the second refused
C26_Witness ==
    /\ istate = "err"
    /\ ierr = "SectionOffsetInvalid"
    /\ wi = 2
    /\ Header(pe.sections[1]).Offset = 4096
    /\ Header(pe.sections[2]).Offset = 4096
    /\ StreamLen(sink) = 4112

\* ------------------------------------------------------------------------
\* Where the emission of a virtual section puts its real sections
\* ------------------------------------------------------------------------
\* the bytes virtualSection.WriteTo writes for one real section
ChildData(section) ==
    IF section.typ = "NOBITS" THEN [i \in 1..section.size |-> 0]
    ELSE IF Len(section.relocations) > 0 THEN processRelocations(section).data
    ELSE section.data

\* the sections of the table that Image.WriteTo has written in full
WrittenSections ==
    IF istate \in {"sections", "done", "err", "panic"}
    THEN {k \in 1..Len(pe.sections) : k < wi}
    ELSE {}

\* real section j of written section k lies in the output at its addrInFile,
\* that is at addrInFile - offset from the start of its virtual section
ChildInPlace(k, j) ==
    LET virt == pe.sections[k].virt
        section == virt.realSections[j]
    IN  /\ Header(pe.sections[k]).Offset = virt.offset
        /\ BytesAt(sink, virt.offset + (section.addrInFile - virt.offset),
                   section.size) = ChildData(section)

\* the bytes of written section k before its first real section and between
\* its real sections are zeros
GapsAreZero(k) ==
    LET virt == pe.sections[k].virt
        Covered(pos) == \E j \in 1..Len(virt.realSections) :
                            /\ virt.realSections[j].addrInFile <= pos
                            /\ pos < virt.realSections[j].addrInFile
                                        + virt.realSections[j].size
        last == Last(virt.realSections)
    IN  \A pos \in virt.offset..(last.addrInFile + last.size - 1) :
            Covered(pos) \/ ByteAt(sink, pos) = 0

\* C27 (as stated): emitting a TEXT or DATA virtual section places every
\* real child section's bytes at the output offset addrInFile - v.offset
\* from the start of the virtual section, with zeros in the gaps, zeros of
\* length size for a NOBITS child and the relocated ELF data otherwise; this
\* holds for every planned layout, a virtual section with no real sections
\* (whose emission writes nothing and goes on) and a first child whose
\* alignment exceeds the page size included.
C27_ChildPlacement ==
    /\ istate # "panic"
    /\ \A k \in WrittenSections :
          (pe.sections[k].kind = "virtual"
                /\ pe.sections[k].virt.realSections # <<>>) =>
              /\ \A j \in 1..Len(pe.sections[k].virt.realSections) :
                    ChildInPlace(k, j)
              /\ GapsAreZero(k)

\* the kernel whose .text is aligned to two pages has been written: the
\* virtual section starts at 4096, .text is planned at 8192, and its four
\* bytes are in the output at 4096, with zeros at 8192
C27_Witness ==
    /\ istate = "done"
    /\ pe.sections[1].kind = "virtual"
    /\ pe.sections[1].virt.offset = 4096
    /\ pe.sections[1].virt.realSections[1].addrInFile = 8192
    /\ BytesAt(sink, 4096, 4) = TextWide.data
    /\ BytesAt(sink, 8192, 4) = <<0, 0, 0, 0>>

\* ------------------------------------------------------------------------
\* Termination of Resolve
\* ------------------------------------------------------------------------
\* the number of iterations of the loop on an acyclic map: every name of the
\* queue is visited once, and so is, after it, every name of its list
RECURSIVE Visits(_, _)
Visits(d, queue) ==
    IF queue = <<>> THEN 0
    ELSE 1 + Visits(d, Lookup(d, Head(queue))) + Visits(d, Tail(queue))

\* a call of Resolve whose every reachable name is a key has started
Started == rstate = "loop" /\ allDependencies = <<>> /\ AllKnown(deps, modules)

CycleReachable == ~Acyclic(deps, modules)

\* no cycle is reachable, and the loop ends within the iterations followed
EndsWithinBound ==
    IF CycleReachable THEN FALSE ELSE Visits(deps, modules) <= MaxVisits

\* the call has returned a list after exactly Visits iterations
Returned ==
    /\ rstate = "done"
    /\ unresolved = <<>>
    /\ IF CycleReachable THEN FALSE
       ELSE Len(allDependencies) = Visits(deps, modules)

\* the loop has run as many iterations as are followed, and has more to run
StillGrowing ==
    rstate = "loop" /\ unresolved # <<>> /\ Len(allDependencies) = MaxVisits

\* C28: for a dependency map in which every name reachable from the request
\* is a key, Resolve terminates (its queue becomes empty and it returns)
\* exactly when no cycle is reachable from the request: without a cycle the
\* loop ends after Visits iterations; with one the queue is never empty, the
\* call never returns, and the visit list reaches every length.
C28_ResolveTermination ==
    /\ [](rstate = "done" => (AllKnown(deps, modules) /\ Returned))
    /\ []((AllKnown(deps, modules) /\ CycleReachable)
              => (rstate = "loop" /\ unresolved # <<>>))
    /\ (Started /\ EndsWithinBound) ~> Returned
    /\ (Started /\ CycleReachable) ~> StillGrowing

\* a is requested and depends on b, which depends on a: the tenth visit is
\* made and b is waiting in the queue
C28_Witness ==
    /\ StillGrowing
    /\ AllKnown(deps, modules)
    /\ modules = <<"a">>
    /\ deps["a"] = <<"b">>
    /\ deps["b"] = <<"a">>
    /\ Len(allDependencies) = MaxVisits

\* ------------------------------------------------------------------------
\* Claims about Reconcile and DownloadGrub
\* ------------------------------------------------------------------------
\* every provider.Latest and every reconcileForArch call succeeds
AllSucceed ==
    \A name \in DOMAIN providers :
        providers[name].latest /\ providers[name].failing = {}

\* C29 (as stated): when every provider.Latest and every reconcileForArch
\* call succeeds, the list Reconcile returns holds exactly one Distro for
\* each (distro, arch) downloader, under every interleaving of the workers,
\* the collector and the caller.
C29_OnePerDownloader ==
    (reconcileState = "returned" /\ AllSucceed) =>
        /\ reconcileErr = NoError
        /\ Len(reconciled) = Cardinality(Downloaders(providers))
        /\ Range(reconciled) = Downloaders(providers)

\* one distro with one architecture: the worker has sent and returned, the
\* caller has closed the channel and returned the empty slice, and the
\* collector has yet to append what it received
C29_Witness ==
    /\ reconcileState = "returned"
    /\ AllSucceed
    /\ Downloaders(providers) = {<<"alpine", "amd64">>}
    /\ reconcileErr = NoError
    /\ reconciled = <<>>
    /\ collector = "append"
    /\ distro = <<"alpine", "amd64">>

\* C30 (as stated): DownloadGrub always eventually returns, whether the
\* download fails before it writes anything or writes the whole body: both
\* goroutines finish and the wait on the group returns.
C30_AlwaysReturns == <>(grubState = "returned")

\* the download has failed without writing, and the extractor waits in its
\* first Read of a pipe that nobody will write to or close
C30_Witness ==
    /\ grubState = "wait"
    /\ downloadState = "failed"
    /\ response = "status"
    /\ extractorState = "reading"
    /\ readsLeft > 0
    /\ ~pipeWrite

====
